---- MODULE Spec2Model ----
(***************************************************************************)
(* A model of the MIDI remaster core of btranTFT/MIDIremapANDgen:          *)
(* backend/src/config.py, feature_extractor.py, instrument_classifier.py,  *)
(* instrument_mapper.py, the two evaluation metrics, and the upload        *)
(* validation of schema.py and api.py.                                     *)
(*                                                                         *)
(* Representation choices                                                  *)
(*  - A mido message is a record whose fields are exactly the attributes   *)
(*    the message has; hasattr(msg, "channel") is "channel" \in DOMAIN m.  *)
(*  - Messages and tracks are objects in a heap (a sequence indexed by     *)
(*    object id), so that copying and attribute assignment are visible.    *)
(*  - A Python float that is a quotient of integers is kept as an exact    *)
(*    fraction [num, den] with den > 0; a standard deviation is kept as    *)
(*    the fraction it is the square root of.  Comparisons against the      *)
(*    code's literals are done in exact arithmetic.                        *)
(*  - A str is the sequence of its character codes.                        *)
(*  - A call either returns ([kind |-> "ok", value |-> v]) or raises       *)
(*    ([kind |-> "raise", exc |-> name]).                                  *)
(***************************************************************************)
EXTENDS Integers, Sequences, FiniteSets, TLC

VARIABLES
    heap,     \* object store: heap[id] is a message or a track object
    midi,     \* the input mido.MidiFile: [ticks_per_beat, tracks (ids)]
    other,    \* a second mido.MidiFile, for the operations that take two
    pc,       \* "parse", "parse_other": a stream is being read; "call": a call
              \* is about to be made; "done": a call returned; "request",
              \* "workspace", "read", "parse", "process", "render", "metadata",
              \* "except": the steps of POST /api/remaster; with two
              \* threads, one of "idle", "running", "done" per thread
    call,     \* the operation invoked with its arguments (per thread, with two)
    result,   \* the outcome of the call (per thread, with two)
    config,   \* the module-level dictionaries of config.py, shared by all calls
    workspaces  \* the workspace directories that exist under TEMP_DIR

vars == <<heap, midi, other, pc, call, result, config, workspaces>>

(***************************************************************************)
(* Bounds of the model.                                                    *)
(***************************************************************************)
MaxMsgs == 3        \* messages in the whole stream

(***************************************************************************)
(* Generic helpers (Python built-ins).                                     *)
(***************************************************************************)
Abs(x) == IF x < 0 THEN -x ELSE x

Range(s) == {s[i] : i \in 1..Len(s)}

RECURSIVE SumSeq(_)
SumSeq(s) == IF s = <<>> THEN 0 ELSE Head(s) + SumSeq(Tail(s))

SumSq(s) == SumSeq([i \in 1..Len(s) |-> s[i] * s[i]])

MinSet(S) == CHOOSE x \in S : \A y \in S : x <= y
MaxSet(S) == CHOOSE x \in S : \A y \in S : x >= y

\* sorted(set): the elements of S in ascending order
RECURSIVE sorted(_)
sorted(S) == IF S = {} THEN <<>> ELSE <<MinSet(S)>> \o sorted(S \ {MinSet(S)})

\* (mutant) a division that truncates towards zero
PyFloorDiv_Truncating(a, b) ==
    IF (a >= 0) = (b > 0) THEN Abs(a) \div Abs(b) ELSE -(Abs(a) \div Abs(b))

\* Python's floor division and modulo for a divisor b # 0 of either sign
PyFloorDiv(a, b) == IF b > 0 THEN a \div b ELSE (-a) \div (-b)
PyMod(a, b) == a - b * PyFloorDiv(a, b)

\* exact fractions
Frac(n, d) == [num |-> n, den |-> d]
\* the fraction f compared with the literal a/b (b > 0)
FracGT(f, a, b) == f.num * b > a * f.den
FracLT(f, a, b) == f.num * b < a * f.den
\* np.mean of a non-empty integer list
Mean(s) == Frac(SumSeq(s), Len(s))
\* np.std of a non-empty integer list, as the fraction whose root it is:
\* mean(|x - mean|^2) = (n * sum(x^2) - sum(x)^2) / n^2
Std(s) == [sqrt_of |-> Frac(Len(s) * SumSq(s) - SumSeq(s) * SumSeq(s), Len(s) * Len(s))]
\* std > k for an integer literal k >= 0
StdGT(s, k) == FracGT(s.sqrt_of, k * k, 1)

\* str.strip() and str.lower() on ASCII character codes
Whitespace == {9, 10, 11, 12, 13, 32}
RECURSIVE lstrip(_)
lstrip(s) == IF s # <<>> /\ Head(s) \in Whitespace THEN lstrip(Tail(s)) ELSE s
RECURSIVE rstrip(_)
rstrip(s) ==
    IF s # <<>> /\ s[Len(s)] \in Whitespace THEN rstrip(SubSeq(s, 1, Len(s) - 1)) ELSE s
strip(s) == rstrip(lstrip(s))
lower(s) == [i \in 1..Len(s) |-> IF s[i] \in 65..90 THEN s[i] + 32 ELSE s[i]]

(***************************************************************************)
(* config.py: the per-soundfont palettes.                                  *)
(***************************************************************************)
STR_snes == <<115, 110, 101, 115>>     \* "snes"
STR_gba == <<103, 98, 97>>             \* "gba"
STR_nds == <<110, 100, 115>>           \* "nds"
STR_ps2 == <<112, 115, 50>>            \* "ps2"
STR_wii == <<119, 105, 105>>           \* "wii"

SNES_LEADS == <<41, 56, 64, 68, 72, 73, 74, 75>>
SNES_PADS == <<42, 48, 49, 50, 51, 60>>
SNES_BASSES == <<32, 43, 58, 70>>
SNES_PERCUSSION == 47

GBA_LEADS == <<80, 81, 82, 83, 87, 88, 89, 90>>
GBA_PADS == <<92, 93, 94, 95, 98, 99>>
GBA_BASSES == <<33, 34, 35, 36, 38, 39>>
GBA_PERCUSSION == 0

NDS_LEADS == <<20, 21, 22, 24, 25, 26, 27, 28>>
NDS_PADS == <<4, 5, 6, 14, 15, 16, 17>>
NDS_BASSES == <<32, 35, 39, 40>>
NDS_PERCUSSION == 47

PS2_LEADS == <<41, 56, 64, 73, 25, 26, 27, 81>>
PS2_PADS == <<48, 49, 50, 51, 60, 92, 93>>
PS2_BASSES == <<32, 33, 43, 38>>
PS2_PERCUSSION == 47

WII_LEADS == <<41, 56, 64, 68, 70, 72, 73, 74>>
WII_PADS == <<42, 48, 49, 50, 60, 61, 62>>
WII_BASSES == <<32, 43, 58, 70>>
WII_PERCUSSION == 47

InstrumentSet(l, p, b, perc) == [leads |-> l, pads |-> p, basses |-> b, percussion |-> perc]

SOUNDFONT_INSTRUMENT_SETS ==
    (STR_snes :> InstrumentSet(SNES_LEADS, SNES_PADS, SNES_BASSES, SNES_PERCUSSION))
    @@ (STR_gba :> InstrumentSet(GBA_LEADS, GBA_PADS, GBA_BASSES, GBA_PERCUSSION))
    @@ (STR_nds :> InstrumentSet(NDS_LEADS, NDS_PADS, NDS_BASSES, NDS_PERCUSSION))
    @@ (STR_ps2 :> InstrumentSet(PS2_LEADS, PS2_PADS, PS2_BASSES, PS2_PERCUSSION))
    @@ (STR_wii :> InstrumentSet(WII_LEADS, WII_PADS, WII_BASSES, WII_PERCUSSION))

\* sorted(set(LEADS + PADS + BASSES + [PERCUSSION, 128]))
AllInstrumentsOf(s) ==
    sorted(Range(s.leads) \cup Range(s.pads) \cup Range(s.basses) \cup {s.percussion, 128})

SOUNDFONT_ALL_INSTRUMENTS ==
    [k \in DOMAIN SOUNDFONT_INSTRUMENT_SETS |-> AllInstrumentsOf(SOUNDFONT_INSTRUMENT_SETS[k])]

\* (soundfont_id or "snes").strip().lower()
NormalizeId(soundfont_id) ==
    lower(strip(IF soundfont_id = <<>> THEN STR_snes ELSE soundfont_id))

\* dict.get(key, default)
DictGet(d, key, default) == IF key \in DOMAIN d THEN d[key] ELSE default

\* the module as it is once imported
LoadedConfig ==
    [SOUNDFONT_INSTRUMENT_SETS |-> SOUNDFONT_INSTRUMENT_SETS,
     SOUNDFONT_ALL_INSTRUMENTS |-> SOUNDFONT_ALL_INSTRUMENTS]

get_instrument_set(soundfont_id) ==
    DictGet(config.SOUNDFONT_INSTRUMENT_SETS, NormalizeId(soundfont_id),
            config.SOUNDFONT_INSTRUMENT_SETS[STR_snes])

\* (mutant) the allowed programs of snes, whatever the style
get_all_instruments_AlwaysSnes(soundfont_id) == config.SOUNDFONT_ALL_INSTRUMENTS[STR_snes]

get_all_instruments(soundfont_id) ==
    DictGet(config.SOUNDFONT_ALL_INSTRUMENTS, NormalizeId(soundfont_id),
            config.SOUNDFONT_ALL_INSTRUMENTS[STR_snes])

is_program_in_soundfont(program, soundfont_id) ==
    program \in Range(get_all_instruments(soundfont_id))

(***************************************************************************)
(* Call outcomes and the object heap.                                      *)
(***************************************************************************)
None == [type |-> "NoneType"]
Return(v) == [kind |-> "ok", value |-> v]
Raise(e) == [kind |-> "raise", exc |-> e]

\* a new object: its id is the next free one
Alloc(h, obj) == [heap |-> Append(h, obj), ref |-> Len(h) + 1]
\* (mutant) msg.copy() that hands back the message itself
copy_Alias(h, ref) == [heap |-> h, ref |-> ref]
\* msg.copy(): a new message object with the same attributes
copy(h, ref) == Alloc(h, h[ref])
\* obj.name = v
SetAttr(h, ref, name, v) == [h EXCEPT ![ref] = [@ EXCEPT ![name] = v]]
\* track.append(msg)
append(h, track, ref) == [h EXCEPT ![track] = [@ EXCEPT !.msgs = Append(@, ref)]]
\* mido.MidiTrack(): a new empty list of messages
MidiTrack == [type |-> "track", msgs |-> <<>>]
\* mido.MidiFile(ticks_per_beat=tpb, type=1)
MidiFile(tpb) == [type |-> 1, ticks_per_beat |-> tpb, tracks |-> <<>>]

\* the messages of a track, in order
Messages(h, track) == [i \in 1..Len(h[track].msgs) |-> h[h[track].msgs[i]]]
\* the stream as a value: its tracks as sequences of messages
Tracks(h, m) == [k \in 1..Len(m.tracks) |-> Messages(h, m.tracks[k])]
\* every object id the stream holds
Objects(h, m) ==
    Range(m.tracks) \cup UNION {Range(h[m.tracks[k]].msgs) : k \in 1..Len(m.tracks)}

hasattr(msg, name) == name \in DOMAIN msg

(***************************************************************************)
(* instrument_classifier.py                                                *)
(***************************************************************************)
\* (mutant) the pad rule tried before the lead rule
classify_channel_PadFirst(midi_channel, features, soundfont_id) ==
    LET inst == get_instrument_set(soundfont_id)
        leads == inst.leads
        pads == inst.pads
        basses == inst.basses
    IN  IF midi_channel = 9 THEN 128
        ELSE IF /\ FracGT(features.percussion_range_ratio, 7, 10)
                /\ FracGT(features.note_repeat_rate, 3, 10)
                /\ StdGT(features.ioi_std, 100)
                /\ FracLT(features.beat_aligned_ratio, 6, 10)
        THEN 128
        ELSE IF /\ StdGT(features.velocity_std, 30)
                /\ FracGT(features.note_density, 2, 1)
                /\ FracLT(features.avg_note_duration, 480, 1)
                /\ FracGT(features.syncopation_score, 2, 10)
        THEN 128
        ELSE IF features.pitch_max < 55 /\ features.pitch_range < 24
        THEN basses[(midi_channel % Len(basses)) + 1]
        ELSE IF FracGT(features.avg_note_duration, 960, 1)
        THEN pads[(midi_channel % Len(pads)) + 1]
        ELSE IF /\ features.pitch_min > 60
                /\ FracLT(features.note_density, 4, 1)
                /\ FracGT(features.avg_note_duration, 240, 1)
        THEN leads[(midi_channel % Len(leads)) + 1]
        ELSE leads[(midi_channel % Len(leads)) + 1]

classify_channel(midi_channel, features, soundfont_id) ==
    LET inst == get_instrument_set(soundfont_id)
        leads == inst.leads
        pads == inst.pads
        basses == inst.basses
    IN  IF midi_channel = 9 THEN 128
        ELSE IF /\ FracGT(features.percussion_range_ratio, 7, 10)
                /\ FracGT(features.note_repeat_rate, 3, 10)
                /\ StdGT(features.ioi_std, 100)
                /\ FracLT(features.beat_aligned_ratio, 6, 10)
        THEN 128
        ELSE IF /\ StdGT(features.velocity_std, 30)
                /\ FracGT(features.note_density, 2, 1)
                /\ FracLT(features.avg_note_duration, 480, 1)
                /\ FracGT(features.syncopation_score, 2, 10)
        THEN 128
        ELSE IF features.pitch_max < 55 /\ features.pitch_range < 24
        THEN basses[(midi_channel % Len(basses)) + 1]
        ELSE IF /\ features.pitch_min > 60
                /\ FracLT(features.note_density, 4, 1)
                /\ FracGT(features.avg_note_duration, 240, 1)
        THEN leads[(midi_channel % Len(leads)) + 1]
        ELSE IF FracGT(features.avg_note_duration, 960, 1)
        THEN pads[(midi_channel % Len(pads)) + 1]
        ELSE leads[(midi_channel % Len(leads)) + 1]

(***************************************************************************)
(* instrument_mapper.py: palette resolution                                *)
(***************************************************************************)
\* for p in allowed: if p != 128: return p / return allowed[0] if allowed else 0
RECURSIVE FirstNonDrum(_, _)
FirstNonDrum(allowed, i) ==
    IF i > Len(allowed) THEN (IF allowed # <<>> THEN allowed[1] ELSE 0)
    ELSE IF allowed[i] # 128 THEN allowed[i]
    ELSE FirstNonDrum(allowed, i + 1)

\* (mutant) the classified program kept without looking at the palette
_program_for_soundfont_Unchecked(gm_program, soundfont_id) == gm_program

_program_for_soundfont(gm_program, soundfont_id) ==
    IF is_program_in_soundfont(gm_program, soundfont_id) THEN gm_program
    ELSE FirstNonDrum(get_all_instruments(soundfont_id), 1)

(***************************************************************************)
(* feature_extractor.py                                                    *)
(***************************************************************************)
EmptyScan ==
    [notes |-> <<>>, velocities |-> <<>>, durations |-> <<>>, onset_times |-> <<>>,
     note_repeats |-> 0, percussion_notes |-> 0, active_notes |-> <<>>]

\* del d[key]
DictDel(d, key) == [k \in DOMAIN d \ {key} |-> d[k]]

\* (mutant) a note-on of velocity 0 taken for a note
ScanMessage_AnyVelocity(acc, msg, track_time, midi_channel) ==
    IF hasattr(msg, "channel") /\ msg.channel = midi_channel
    THEN IF msg.type = "note_on" /\ msg.velocity >= 0
         THEN LET notes == Append(acc.notes, msg.note)
              IN  [acc EXCEPT
                      !.notes = notes,
                      !.velocities = Append(@, msg.velocity),
                      !.onset_times = Append(@, track_time),
                      !.active_notes = (msg.note :> <<track_time, msg.velocity>>) @@ @,
                      !.percussion_notes = IF 35 <= msg.note /\ msg.note <= 81 THEN @ + 1 ELSE @,
                      !.note_repeats =
                          IF Len(notes) > 1 /\ notes[Len(notes)] = notes[Len(notes) - 1]
                          THEN @ + 1 ELSE @]
         ELSE IF msg.type = "note_off" \/ (msg.type = "note_on" /\ msg.velocity = 0)
         THEN IF msg.note \in DOMAIN acc.active_notes
              THEN [acc EXCEPT
                       !.durations = Append(@, track_time - acc.active_notes[msg.note][1]),
                       !.active_notes = DictDel(@, msg.note)]
              ELSE acc
         ELSE acc
    ELSE acc

\* the body of the loop over the messages of a track
ScanMessage(acc, msg, track_time, midi_channel) ==
    IF hasattr(msg, "channel") /\ msg.channel = midi_channel
    THEN IF msg.type = "note_on" /\ msg.velocity > 0
         THEN LET notes == Append(acc.notes, msg.note)
              IN  [acc EXCEPT
                      !.notes = notes,
                      !.velocities = Append(@, msg.velocity),
                      !.onset_times = Append(@, track_time),
                      !.active_notes = (msg.note :> <<track_time, msg.velocity>>) @@ @,
                      !.percussion_notes = IF 35 <= msg.note /\ msg.note <= 81 THEN @ + 1 ELSE @,
                      !.note_repeats =
                          IF Len(notes) > 1 /\ notes[Len(notes)] = notes[Len(notes) - 1]
                          THEN @ + 1 ELSE @]
         ELSE IF msg.type = "note_off" \/ (msg.type = "note_on" /\ msg.velocity = 0)
         THEN IF msg.note \in DOMAIN acc.active_notes
              THEN [acc EXCEPT
                       !.durations = Append(@, track_time - acc.active_notes[msg.note][1]),
                       !.active_notes = DictDel(@, msg.note)]
              ELSE acc
         ELSE acc
    ELSE acc

\* for msg in track: track_time += msg.time; ...
RECURSIVE ScanTrack(_, _, _, _, _)
ScanTrack(msgs, i, track_time, acc, midi_channel) ==
    IF i > Len(msgs) THEN acc
    ELSE LET t == track_time + msgs[i].time
         IN  ScanTrack(msgs, i + 1, t, ScanMessage(acc, msgs[i], t, midi_channel), midi_channel)

\* (mutant) only the first track of the stream is scanned
ScanTracks_FirstTrack(tracks, k, acc, midi_channel) ==
    IF tracks = <<>> THEN acc
    ELSE ScanTrack(tracks[1], 1, 0, acc, midi_channel)

\* for track in midi.tracks: track_time = 0; ...
RECURSIVE ScanTracks(_, _, _, _)
ScanTracks(tracks, k, acc, midi_channel) ==
    IF k > Len(tracks) THEN acc
    ELSE ScanTracks(tracks, k + 1, ScanTrack(tracks[k], 1, 0, acc, midi_channel), midi_channel)

\* (mutant) the ticks on the grid summed instead of counted
OnGrid_SumsTicks(onset_times, beat_grid_ticks) ==
    SumSeq([i \in 1..Len(onset_times) |->
               IF 10 * PyMod(onset_times[i], beat_grid_ticks) < beat_grid_ticks
               THEN onset_times[i] ELSE 0])

\* sum(1 for t in onset_times if t % beat_grid_ticks < beat_grid_ticks * 0.1)
OnGrid(onset_times, beat_grid_ticks) ==
    Cardinality({i \in 1..Len(onset_times) :
                    10 * PyMod(onset_times[i], beat_grid_ticks) < beat_grid_ticks})

\* sum(1 for i, t in enumerate(onset_times)
\*     if (t % ticks_per_beat) > off_beat_ticks * 0.9 and velocities[i] > 80)
Syncopated(onset_times, velocities, ticks_per_beat, off_beat_ticks) ==
    Cardinality({i \in 1..Len(onset_times) :
                    /\ 10 * PyMod(onset_times[i], ticks_per_beat) > 9 * off_beat_ticks
                    /\ velocities[i] > 80})

\* len(notes) / duration_beats if duration_beats else float(len(notes)), with
\* duration_beats = max(onset_times) / ticks_per_beat if ticks_per_beat > 0 else 1
NoteDensity(notes, onset_times, ticks_per_beat) ==
    LET total_duration_ticks == MaxSet(Range(onset_times))
    IN  IF ticks_per_beat > 0
        THEN IF total_duration_ticks # 0
             THEN (IF total_duration_ticks > 0
                   THEN Frac(Len(notes) * ticks_per_beat, total_duration_ticks)
                   ELSE Frac(-(Len(notes) * ticks_per_beat), -total_duration_ticks))
             ELSE Frac(Len(notes), 1)
        ELSE Frac(Len(notes), 1)

extract_features_from_channel(h, m, midi_channel) ==
    LET acc == ScanTracks(Tracks(h, m), 1, EmptyScan, midi_channel)
        notes == acc.notes
        velocities == acc.velocities
        durations == acc.durations
        onset_times == acc.onset_times
        iois == [i \in 1..(Len(onset_times) - 1) |-> onset_times[i + 1] - onset_times[i]]
        ticks_per_beat == m.ticks_per_beat
        beat_grid_ticks == PyFloorDiv(ticks_per_beat, 4)
        off_beat_ticks == PyFloorDiv(ticks_per_beat, 2)
    IN  IF notes = <<>> THEN Return(None)
        ELSE IF beat_grid_ticks = 0 THEN Raise("ZeroDivisionError")
        ELSE Return(
            [channel_num |-> midi_channel,
             pitch_min |-> MinSet(Range(notes)),
             pitch_max |-> MaxSet(Range(notes)),
             pitch_range |-> MaxSet(Range(notes)) - MinSet(Range(notes)),
             avg_velocity |-> Mean(velocities),
             velocity_std |-> Std(velocities),
             note_density |-> NoteDensity(notes, onset_times, ticks_per_beat),
             avg_note_duration |-> IF durations # <<>> THEN Mean(durations) ELSE Frac(0, 1),
             note_repeat_rate |->
                 IF Len(notes) > 1 THEN Frac(acc.note_repeats, Len(notes)) ELSE Frac(0, 1),
             percussion_range_ratio |-> Frac(acc.percussion_notes, Len(notes)),
             note_count |-> Len(notes),
             avg_inter_onset_interval |-> IF iois # <<>> THEN Mean(iois) ELSE Frac(0, 1),
             ioi_std |-> IF iois # <<>> THEN Std(iois) ELSE [sqrt_of |-> Frac(0, 1)],
             beat_aligned_ratio |-> Frac(OnGrid(onset_times, beat_grid_ticks), Len(onset_times)),
             syncopation_score |->
                 Frac(Syncopated(onset_times, velocities, ticks_per_beat, off_beat_ticks),
                      Len(onset_times))])

get_active_channels(h, m) ==
    sorted({msg.channel : msg \in
              {x \in UNION {Range(Tracks(h, m)[k]) : k \in 1..Len(m.tracks)} :
                  hasattr(x, "channel") /\ x.type \in {"note_on", "note_off"}}})

(***************************************************************************)
(* instrument_mapper.py: remap_midi                                        *)
(***************************************************************************)
\* for channel_num in active_channels: features = ...; if features: ...
RECURSIVE ChannelPrograms(_, _, _, _, _)
ChannelPrograms(h, m, active_channels, soundfont_id, channel_programs) ==
    IF active_channels = <<>> THEN Return(channel_programs)
    ELSE LET channel_num == Head(active_channels)
             features == extract_features_from_channel(h, m, channel_num)
         IN  IF features.kind = "raise" THEN features
             ELSE IF features.value # None
             THEN LET gm_program == classify_channel(channel_num, features.value, soundfont_id)
                  IN  ChannelPrograms(h, m, Tail(active_channels), soundfont_id,
                          (channel_num :> _program_for_soundfont(gm_program, soundfont_id))
                              @@ channel_programs)
             ELSE ChannelPrograms(h, m, Tail(active_channels), soundfont_id, channel_programs)

\* track_channels: the channels of the messages of a track
TrackChannels(msgs) == {msgs[i].channel : i \in {j \in 1..Len(msgs) : hasattr(msgs[j], "channel")}}

\* mido.Message("program_change", program=..., channel=..., time=0)
ProgramChange(program, channel) ==
    [type |-> "program_change", channel |-> channel, program |-> program, time |-> 0]

\* for channel in sorted(track_channels): if channel in channel_programs: new_track.append(...)
RECURSIVE InsertProgramChanges(_, _, _, _)
InsertProgramChanges(h, new_track, channels, channel_programs) ==
    IF channels = <<>> THEN h
    ELSE LET channel == Head(channels)
         IN  IF channel \in DOMAIN channel_programs
             THEN LET gm_program == channel_programs[channel]
                      a == IF gm_program = 128
                           THEN Alloc(h, ProgramChange(0, 9))
                           ELSE Alloc(h, ProgramChange(gm_program, channel))
                  IN  InsertProgramChanges(append(a.heap, new_track, a.ref), new_track,
                                           Tail(channels), channel_programs)
             ELSE InsertProgramChanges(h, new_track, Tail(channels), channel_programs)

\* (mutant) only the copies of program changes are rewritten
CopyMessage_KeepsChannel(h, new_track, ref, channel_programs) ==
    LET msg == h[ref]
        c == copy(h, ref)
        new_msg == c.ref
        h1 == IF hasattr(msg, "channel") /\ msg.channel \in DOMAIN channel_programs
              THEN LET prog == channel_programs[msg.channel]
                   IN  IF msg.type = "program_change"
                       THEN SetAttr(SetAttr(c.heap, new_msg, "program", IF prog = 128 THEN 0 ELSE prog),
                                    new_msg, "channel", IF prog = 128 THEN 9 ELSE msg.channel)
                       ELSE c.heap
              ELSE c.heap
    IN  append(h1, new_track, new_msg)

\* (mutant) the copy of a program change is reset when its channel has no program
CopyMessage_ResetsUnresolved(h, new_track, ref, channel_programs) ==
    LET msg == h[ref]
        c == copy(h, ref)
        new_msg == c.ref
        h1 == IF hasattr(msg, "channel") /\ msg.channel \in DOMAIN channel_programs
              THEN LET prog == channel_programs[msg.channel]
                       h2 == IF prog = 128 /\ msg.channel # 9
                             THEN SetAttr(c.heap, new_msg, "channel", 9)
                             ELSE c.heap
                   IN  IF msg.type = "program_change"
                       THEN SetAttr(SetAttr(h2, new_msg, "program", IF prog = 128 THEN 0 ELSE prog),
                                    new_msg, "channel", IF prog = 128 THEN 9 ELSE msg.channel)
                       ELSE h2
              ELSE IF msg.type = "program_change"
                   THEN SetAttr(c.heap, new_msg, "program", 0)
                   ELSE c.heap
    IN  append(h1, new_track, new_msg)

\* the body of the copy loop: new_msg = msg.copy(); ...; new_track.append(new_msg)
CopyMessage(h, new_track, ref, channel_programs) ==
    LET msg == h[ref]
        c == copy(h, ref)
        new_msg == c.ref
        h1 == IF hasattr(msg, "channel") /\ msg.channel \in DOMAIN channel_programs
              THEN LET prog == channel_programs[msg.channel]
                       h2 == IF prog = 128 /\ msg.channel # 9
                             THEN SetAttr(c.heap, new_msg, "channel", 9)
                             ELSE c.heap
                   IN  IF msg.type = "program_change"
                       THEN SetAttr(SetAttr(h2, new_msg, "program", IF prog = 128 THEN 0 ELSE prog),
                                    new_msg, "channel", IF prog = 128 THEN 9 ELSE msg.channel)
                       ELSE h2
              ELSE c.heap
    IN  append(h1, new_track, new_msg)

\* for msg in track: ...
RECURSIVE CopyMessages(_, _, _, _, _)
CopyMessages(h, new_track, refs, i, channel_programs) ==
    IF i > Len(refs) THEN h
    ELSE CopyMessages(CopyMessage(h, new_track, refs[i], channel_programs),
                      new_track, refs, i + 1, channel_programs)

\* (mutant) the program changes are inserted after the copies
RemapTrack_InsertAfter(h, track, channel_programs) ==
    LET t == Alloc(h, MidiTrack)
        new_track == t.ref
        h1 == CopyMessages(t.heap, new_track, h[track].msgs, 1, channel_programs)
        h2 == InsertProgramChanges(h1, new_track, sorted(TrackChannels(Messages(h, track))),
                                   channel_programs)
    IN  [heap |-> h2, ref |-> new_track]

\* the body of the loop over the tracks: the new heap and the new track
RemapTrack(h, track, channel_programs) ==
    LET t == Alloc(h, MidiTrack)
        new_track == t.ref
        h1 == InsertProgramChanges(t.heap, new_track, sorted(TrackChannels(Messages(h, track))),
                                   channel_programs)
        h2 == CopyMessages(h1, new_track, h[track].msgs, 1, channel_programs)
    IN  [heap |-> h2, ref |-> new_track]

\* for track in input_midi.tracks: ...; output_midi.tracks.append(new_track)
RECURSIVE RemapTracks(_, _, _, _, _)
RemapTracks(h, tracks, k, channel_programs, output_midi) ==
    IF k > Len(tracks) THEN [heap |-> h, outcome |-> Return(output_midi)]
    ELSE LET r == RemapTrack(h, tracks[k], channel_programs)
         IN  RemapTracks(r.heap, tracks, k + 1, channel_programs,
                         [output_midi EXCEPT !.tracks = Append(@, r.ref)])

\* the new heap and the outcome of remap_midi(input_midi, soundfont_id)
remap_midi(h, input_midi, soundfont_id) ==
    LET output_midi == MidiFile(input_midi.ticks_per_beat)
        active_channels == get_active_channels(h, input_midi)
        channel_programs == ChannelPrograms(h, input_midi, active_channels, soundfont_id, <<>>)
    IN  IF channel_programs.kind = "raise"
        THEN [heap |-> h, outcome |-> channel_programs]
        ELSE RemapTracks(h, input_midi.tracks, 1, channel_programs.value, output_midi)

(***************************************************************************)
(* Exact arithmetic on fractions, for the metrics.                         *)
(***************************************************************************)
RECURSIVE GCD(_, _)
GCD(a, b) == IF b = 0 THEN a ELSE GCD(b, a % b)

\* the fraction in lowest terms with a positive denominator
Reduce(f) ==
    LET g == GCD(Abs(f.num), Abs(f.den))
        sgn == IF f.den < 0 THEN -1 ELSE 1
    IN  Frac(sgn * (f.num \div g), sgn * (f.den \div g))

FracAdd(a, b) == Reduce(Frac(a.num * b.den + b.num * a.den, a.den * b.den))
FracSub(a, b) == Reduce(Frac(a.num * b.den - b.num * a.den, a.den * b.den))
FracMul(a, b) == Reduce(Frac(a.num * b.num, a.den * b.den))
FracDiv(a, b) == Reduce(Frac(a.num * b.den, a.den * b.num))
FracAbs(a) == Frac(Abs(a.num), a.den)
FracLess(a, b) == a.num * b.den < b.num * a.den
FracLeq(a, b) == a.num * b.den <= b.num * a.den
Zero == Frac(0, 1)

\* round(x, 4) of x >= 0, to the nearest ten-thousandth, ties to even
Round4(x) ==
    LET q == (x.num * 10000) \div x.den
        r == (x.num * 10000) % x.den
    IN  Frac(IF 2 * r > x.den \/ (2 * r = x.den /\ q % 2 = 1) THEN q + 1 ELSE q, 10000)

\* sorted(list) of a list of fractions: insertion into an ascending list
RECURSIVE InsertSorted(_, _)
InsertSorted(s, x) ==
    IF s = <<>> THEN <<x>>
    ELSE IF FracLess(x, Head(s)) THEN <<x>> \o s
    ELSE <<Head(s)>> \o InsertSorted(Tail(s), x)

RECURSIVE SortFracs(_)
SortFracs(s) == IF s = <<>> THEN <<>> ELSE InsertSorted(SortFracs(SubSeq(s, 1, Len(s) - 1)), s[Len(s)])

(***************************************************************************)
(* evaluation/onset_alignment.py                                           *)
(***************************************************************************)
\* mido.tick2second: tick * tempo * 1e-6 / ticks_per_beat, in seconds
tick2second(tick, ticks_per_beat, tempo) == Reduce(Frac(tick * tempo, ticks_per_beat * 1000000))

\* for msg in track: ...   (st: elapsed_seconds, tempo and the onsets so far)
RECURSIVE OnsetsOfTrack(_, _, _, _)
OnsetsOfTrack(msgs, i, ticks_per_beat, st) ==
    IF i > Len(msgs) THEN st.onsets
    ELSE LET msg == msgs[i]
             elapsed_seconds ==
                 IF ticks_per_beat > 0
                 THEN FracAdd(st.elapsed_seconds, tick2second(msg.time, ticks_per_beat, st.tempo))
                 ELSE st.elapsed_seconds
         IN  OnsetsOfTrack(msgs, i + 1, ticks_per_beat,
                 [elapsed_seconds |-> elapsed_seconds,
                  tempo |-> IF msg.type = "set_tempo" THEN msg.tempo ELSE st.tempo,
                  onsets |-> IF msg.type # "set_tempo" /\ msg.type = "note_on" /\ msg.velocity > 0
                             THEN Append(st.onsets, elapsed_seconds)
                             ELSE st.onsets])

\* for track in midi.tracks: elapsed_seconds = 0.0; tempo = 500_000; ...
RECURSIVE OnsetsOfTracks(_, _, _, _)
OnsetsOfTracks(tracks, k, ticks_per_beat, onsets) ==
    IF k > Len(tracks) THEN onsets
    ELSE OnsetsOfTracks(tracks, k + 1, ticks_per_beat,
             OnsetsOfTrack(tracks[k], 1, ticks_per_beat,
                           [elapsed_seconds |-> Zero, tempo |-> 500000, onsets |-> onsets]))

_extract_onset_times_seconds(h, m) ==
    SortFracs(OnsetsOfTracks(Tracks(h, m), 1, m.ticks_per_beat, <<>>))

\* (mutant) a candidate already matched is matched again
RECURSIVE BestCandidate_Rematch(_, _, _, _, _, _, _)
BestCandidate_Rematch(ref_t, cand_onsets, matched_cand, tolerance_s, j, best_j, best_dist) ==
    IF j > Len(cand_onsets) THEN best_j
    ELSE LET dist == FracAbs(FracSub(ref_t, cand_onsets[j]))
         IN  IF FracLeq(dist, tolerance_s) /\ (best_j = 0 \/ FracLess(dist, best_dist))
             THEN BestCandidate_Rematch(ref_t, cand_onsets, matched_cand, tolerance_s,
                                        j + 1, j, dist)
             ELSE BestCandidate_Rematch(ref_t, cand_onsets, matched_cand, tolerance_s,
                                        j + 1, best_j, best_dist)

\* (mutant) a candidate at exactly the tolerance is not matched
RECURSIVE BestCandidate_StrictTolerance(_, _, _, _, _, _, _)
BestCandidate_StrictTolerance(ref_t, cand_onsets, matched_cand, tolerance_s, j, best_j, best_dist) ==
    IF j > Len(cand_onsets) THEN best_j
    ELSE IF j \in matched_cand
    THEN BestCandidate_StrictTolerance(ref_t, cand_onsets, matched_cand, tolerance_s, j + 1,
                                       best_j, best_dist)
    ELSE LET dist == FracAbs(FracSub(ref_t, cand_onsets[j]))
         IN  IF FracLess(dist, tolerance_s) /\ (best_j = 0 \/ FracLess(dist, best_dist))
             THEN BestCandidate_StrictTolerance(ref_t, cand_onsets, matched_cand, tolerance_s,
                                                j + 1, j, dist)
             ELSE BestCandidate_StrictTolerance(ref_t, cand_onsets, matched_cand, tolerance_s,
                                                j + 1, best_j, best_dist)

\* (mutant) of two candidates at the same distance the later one is taken
RECURSIVE BestCandidate_LatestOnTie(_, _, _, _, _, _, _)
BestCandidate_LatestOnTie(ref_t, cand_onsets, matched_cand, tolerance_s, j, best_j, best_dist) ==
    IF j > Len(cand_onsets) THEN best_j
    ELSE IF j \in matched_cand
    THEN BestCandidate_LatestOnTie(ref_t, cand_onsets, matched_cand, tolerance_s, j + 1,
                                   best_j, best_dist)
    ELSE LET dist == FracAbs(FracSub(ref_t, cand_onsets[j]))
         IN  IF FracLeq(dist, tolerance_s) /\ (best_j = 0 \/ FracLeq(dist, best_dist))
             THEN BestCandidate_LatestOnTie(ref_t, cand_onsets, matched_cand, tolerance_s,
                                            j + 1, j, dist)
             ELSE BestCandidate_LatestOnTie(ref_t, cand_onsets, matched_cand, tolerance_s,
                                            j + 1, best_j, best_dist)

\* the inner loop: the nearest unmatched candidate within the tolerance
\* (best_j = 0 stands for None, and then best_dist for float("inf"))
RECURSIVE BestCandidate(_, _, _, _, _, _, _)
BestCandidate(ref_t, cand_onsets, matched_cand, tolerance_s, j, best_j, best_dist) ==
    IF j > Len(cand_onsets) THEN best_j
    ELSE IF j \in matched_cand
    THEN BestCandidate(ref_t, cand_onsets, matched_cand, tolerance_s, j + 1, best_j, best_dist)
    ELSE LET dist == FracAbs(FracSub(ref_t, cand_onsets[j]))
         IN  IF FracLeq(dist, tolerance_s) /\ (best_j = 0 \/ FracLess(dist, best_dist))
             THEN BestCandidate(ref_t, cand_onsets, matched_cand, tolerance_s, j + 1, j, dist)
             ELSE BestCandidate(ref_t, cand_onsets, matched_cand, tolerance_s, j + 1,
                                best_j, best_dist)

\* the outer loop: the state of the matching after the reference onsets from i on
RECURSIVE GreedyMatch(_, _, _, _, _)
GreedyMatch(ref_onsets, cand_onsets, tolerance_s, i, st) ==
    IF i > Len(ref_onsets) THEN st
    ELSE LET best_j == BestCandidate(ref_onsets[i], cand_onsets, st.matched_cand,
                                     tolerance_s, 1, 0, Zero)
         IN  GreedyMatch(ref_onsets, cand_onsets, tolerance_s, i + 1,
                 IF best_j # 0
                 THEN [matched_ref |-> st.matched_ref \cup {i},
                       matched_cand |-> st.matched_cand \cup {best_j},
                       true_positives |-> st.true_positives + 1]
                 ELSE st)

\* (mutant) recall taken over the candidate onsets
onset_alignment_fmeasure_RecallOfCandidates(h, midi_ref, midi_cand, tolerance_s) ==
    LET ref_onsets == _extract_onset_times_seconds(h, midi_ref)
        cand_onsets == _extract_onset_times_seconds(h, midi_cand)
        zero == [precision |-> Zero, recall |-> Zero, f_measure |-> Zero]
        m == GreedyMatch(ref_onsets, cand_onsets, tolerance_s, 1,
                         [matched_ref |-> {}, matched_cand |-> {}, true_positives |-> 0])
        precision == Reduce(Frac(m.true_positives, Len(cand_onsets)))
        recall == Reduce(Frac(m.true_positives, Len(cand_onsets)))
        f_measure == IF FracLess(Zero, FracAdd(precision, recall))
                     THEN FracDiv(FracMul(Frac(2, 1), FracMul(precision, recall)),
                                  FracAdd(precision, recall))
                     ELSE Zero
    IN  IF ref_onsets = <<>> \/ cand_onsets = <<>> THEN Return(zero)
        ELSE Return([precision |-> Round4(precision), recall |-> Round4(recall),
                     f_measure |-> Round4(f_measure)])

onset_alignment_fmeasure(h, midi_ref, midi_cand, tolerance_s) ==
    LET ref_onsets == _extract_onset_times_seconds(h, midi_ref)
        cand_onsets == _extract_onset_times_seconds(h, midi_cand)
        zero == [precision |-> Zero, recall |-> Zero, f_measure |-> Zero]
        m == GreedyMatch(ref_onsets, cand_onsets, tolerance_s, 1,
                         [matched_ref |-> {}, matched_cand |-> {}, true_positives |-> 0])
        precision == Reduce(Frac(m.true_positives, Len(cand_onsets)))
        recall == Reduce(Frac(m.true_positives, Len(ref_onsets)))
        f_measure == IF FracLess(Zero, FracAdd(precision, recall))
                     THEN FracDiv(FracMul(Frac(2, 1), FracMul(precision, recall)),
                                  FracAdd(precision, recall))
                     ELSE Zero
    IN  IF ref_onsets = <<>> \/ cand_onsets = <<>> THEN Return(zero)
        ELSE Return([precision |-> Round4(precision), recall |-> Round4(recall),
                     f_measure |-> Round4(f_measure)])

(***************************************************************************)
(* evaluation/melody_similarity.py                                         *)
(***************************************************************************)
\* channel_notes.setdefault(msg.channel, []).append(msg.note): the dict as
\* its keys in insertion order and its values
CollectNote(channel_notes, msg) ==
    IF /\ hasattr(msg, "channel")
       /\ msg.type = "note_on"
       /\ msg.velocity > 0
       /\ msg.channel # 9
    THEN IF msg.channel \in Range(channel_notes.keys)
         THEN [channel_notes EXCEPT !.values[msg.channel] = Append(@, msg.note)]
         ELSE [keys |-> Append(channel_notes.keys, msg.channel),
               values |-> (msg.channel :> <<msg.note>>) @@ channel_notes.values]
    ELSE channel_notes

RECURSIVE CollectTrack(_, _, _)
CollectTrack(msgs, i, channel_notes) ==
    IF i > Len(msgs) THEN channel_notes
    ELSE CollectTrack(msgs, i + 1, CollectNote(channel_notes, msgs[i]))

RECURSIVE CollectTracks(_, _, _)
CollectTracks(tracks, k, channel_notes) ==
    IF k > Len(tracks) THEN channel_notes
    ELSE CollectTracks(tracks, k + 1, CollectTrack(tracks[k], 1, channel_notes))

\* (mutant) of the keys of the largest mean the last one
RECURSIVE MaxByMean_LastOnTie(_, _, _, _)
MaxByMean_LastOnTie(keys, values, i, best) ==
    IF i > Len(keys) THEN best
    ELSE IF FracLeq(Mean(values[best]), Mean(values[keys[i]]))
    THEN MaxByMean_LastOnTie(keys, values, i + 1, keys[i])
    ELSE MaxByMean_LastOnTie(keys, values, i + 1, best)

\* max(channel_notes, key=mean): the first key, in insertion order, of the largest mean
RECURSIVE MaxByMean(_, _, _, _)
MaxByMean(keys, values, i, best) ==
    IF i > Len(keys) THEN best
    ELSE IF FracLess(Mean(values[best]), Mean(values[keys[i]]))
    THEN MaxByMean(keys, values, i + 1, keys[i])
    ELSE MaxByMean(keys, values, i + 1, best)

_extract_melody_pitches(h, m) ==
    LET channel_notes == CollectTracks(Tracks(h, m), 1, [keys |-> <<>>, values |-> <<>>])
    IN  IF channel_notes.keys = <<>> THEN <<>>
        ELSE channel_notes.values[MaxByMean(channel_notes.keys, channel_notes.values, 1,
                                            channel_notes.keys[1])]

\* a correlation coefficient, kept as its sign, the fraction the absolute
\* value of the exact coefficient is the square root of, and the number of
\* units of 2^-53 (the spacing of the doubles below 1.0) by which the absolute
\* value computed in double arithmetic lies below the exact one
Corr(sign, sq, ulps) == [sign |-> sign, sqrt_of |-> sq, ulps |-> ulps]

\* the float 0.0
NoCorr == Corr(0, Zero, 0)

\* the rounding errors of np.corrcoef, in units of 2^-53: it divides the
\* covariance by the two rounded standard deviations, one after the other.
\* For the pitches 64, 84 compared with themselves the covariance is 200 and
\* 200 / sqrt(200) / sqrt(200) is 1 - 2^-53 in double arithmetic.
RoundingErrors == -2 .. 2

\* (mutant) the second list read one place late
Pearson_Shifted(a, b, rounding) ==
    LET n == Len(a)
        c == [i \in 1..n |-> b[(i % n) + 1]]
        cov == n * SumSeq([i \in 1..n |-> a[i] * c[i]]) - SumSeq(a) * SumSeq(c)
        var_a == n * SumSq(a) - SumSeq(a) * SumSeq(a)
        var_b == n * SumSq(c) - SumSeq(c) * SumSeq(c)
        sq == FracMul(Reduce(Frac(Abs(cov), var_a)), Reduce(Frac(Abs(cov), var_b)))
    IN  Corr(IF cov > 0 THEN 1 ELSE IF cov < 0 THEN -1 ELSE 0, sq,
             IF sq = Frac(1, 1) /\ rounding < 0 THEN 0 ELSE rounding)

\* np.corrcoef(a, b)[0, 1] of two lists of the same length and non-zero
\* variance; np.corrcoef clips its result to [-1, 1]
Pearson(a, b, rounding) ==
    LET n == Len(a)
        cov == n * SumSeq([i \in 1..n |-> a[i] * b[i]]) - SumSeq(a) * SumSeq(b)
        var_a == n * SumSq(a) - SumSeq(a) * SumSeq(a)
        var_b == n * SumSq(b) - SumSeq(b) * SumSeq(b)
        sq == FracMul(Reduce(Frac(Abs(cov), var_a)), Reduce(Frac(Abs(cov), var_b)))
    IN  Corr(IF cov > 0 THEN 1 ELSE IF cov < 0 THEN -1 ELSE 0, sq,
             IF sq = Frac(1, 1) /\ rounding < 0 THEN 0 ELSE rounding)

\* (mutant) equal constant lists are taken to be perfectly similar
melody_contour_similarity_ConstantAgree(h, midi_a, midi_b, rounding) ==
    LET pitches_a == _extract_melody_pitches(h, midi_a)
        pitches_b == _extract_melody_pitches(h, midi_b)
        n == IF Len(pitches_a) < Len(pitches_b) THEN Len(pitches_a) ELSE Len(pitches_b)
        a == SubSeq(pitches_a, 1, n)
        b == SubSeq(pitches_b, 1, n)
    IN  IF pitches_a = <<>> \/ pitches_b = <<>> THEN Return(NoCorr)
        ELSE IF n < 2 THEN Return(NoCorr)
        ELSE IF Std(a).sqrt_of.num = 0 \/ Std(b).sqrt_of.num = 0
        THEN Return(IF a = b THEN Corr(1, Frac(1, 1), 0) ELSE NoCorr)
        ELSE Return(Pearson(a, b, rounding))

melody_contour_similarity(h, midi_a, midi_b, rounding) ==
    LET pitches_a == _extract_melody_pitches(h, midi_a)
        pitches_b == _extract_melody_pitches(h, midi_b)
        n == IF Len(pitches_a) < Len(pitches_b) THEN Len(pitches_a) ELSE Len(pitches_b)
        a == SubSeq(pitches_a, 1, n)
        b == SubSeq(pitches_b, 1, n)
    IN  IF pitches_a = <<>> \/ pitches_b = <<>> THEN Return(NoCorr)
        ELSE IF n < 2 THEN Return(NoCorr)
        ELSE IF Std(a).sqrt_of.num = 0 \/ Std(b).sqrt_of.num = 0 THEN Return(NoCorr)
        ELSE Return(Pearson(a, b, rounding))


(***************************************************************************)
(* The inputs: the messages a parsed stream is made of, the resolutions,   *)
(* and the channels and soundfont ids a caller passes.                     *)
(***************************************************************************)
Note(type, channel, note, velocity, time) ==
    [type |-> type, channel |-> channel, note |-> note, velocity |-> velocity, time |-> time]

SoftNote == Note("note_on", 0, 64, 40, 0)         \* a soft note on the beat
LoudNote == Note("note_on", 0, 84, 127, 400)      \* a loud, high note off the beat
NoteOff == Note("note_off", 0, 64, 0, 240)
SilentNoteOn == Note("note_on", 0, 84, 0, 100)    \* a note-on of velocity 0
DrumNote == Note("note_on", 9, 36, 100, 0)        \* a note on the drum channel
OldProgram == [type |-> "program_change", channel |-> 0, program |-> 5, time |-> 0]
SetTempo == [type |-> "set_tempo", tempo |-> 250000, time |-> 0]

RemapPool == {SoftNote, LoudNote, NoteOff, DrumNote, OldProgram, SetTempo}
FeaturePool == {SoftNote, LoudNote, NoteOff, SilentNoteOn, DrumNote, OldProgram}

Channels == {0, 1, 9}

SoundfontIds ==
    { STR_snes, STR_gba, STR_nds, STR_ps2, STR_wii,
      <<110, 54, 52>>,                        \* "n64": not a registered id
      <<32, 71, 66, 65, 32>>,                 \* " GBA "
      <<>> }                                  \* ""

\* tolerance_s: 0.05 (the default) and 0
Tolerances == {Frac(1, 20), Zero}

\* resolutions at and around the invalid ones
EdgeResolutions == {-480, -1, 0, 1, 3, 4}

ResolutionPool == {SoftNote, LoudNote, SetTempo}

NoCall == [op |-> "none"]
NoResult == [kind |-> "none"]

MessageCount == Cardinality({id \in 1..Len(heap) : heap[id].type # "track"})

(***************************************************************************)
(* The state machine: the codec parses a stream, then one call is made.    *)
(***************************************************************************)
InitStream(resolutions) ==
    /\ heap = <<>>
    /\ midi \in {MidiFile(tpb) : tpb \in resolutions}
    /\ other = MidiFile(480)
    /\ pc = "parse"
    /\ call = NoCall
    /\ result = NoResult
    /\ config = LoadedConfig
    /\ workspaces = {}

\* the codec opens a new track (the first, or one after a track that has messages)
ParseTrack ==
    /\ pc = "parse"
    /\ midi.tracks # <<>> => heap[midi.tracks[Len(midi.tracks)]].msgs # <<>>
    /\ LET t == Alloc(heap, MidiTrack)
       IN  /\ heap' = t.heap
           /\ midi' = [midi EXCEPT !.tracks = Append(@, t.ref)]
    /\ UNCHANGED <<other, pc, call, result, config, workspaces>>

\* the codec reads one message into the last track
ParseMessage(pool) ==
    /\ pc = "parse"
    /\ midi.tracks # <<>>
    /\ MessageCount < MaxMsgs
    /\ \E msg \in pool :
          LET a == Alloc(heap, msg)
          IN  heap' = append(a.heap, midi.tracks[Len(midi.tracks)], a.ref)
    /\ UNCHANGED <<midi, other, pc, call, result, config, workspaces>>

\* the codec goes on to the second stream
ParseOther ==
    /\ pc = "parse"
    /\ midi.tracks # <<>>
    /\ pc' = "parse_other"
    /\ UNCHANGED <<heap, midi, other, call, result, config, workspaces>>

ParseOtherTrack ==
    /\ pc = "parse_other"
    /\ other.tracks # <<>> => heap[other.tracks[Len(other.tracks)]].msgs # <<>>
    /\ LET t == Alloc(heap, MidiTrack)
       IN  /\ heap' = t.heap
           /\ other' = [other EXCEPT !.tracks = Append(@, t.ref)]
    /\ UNCHANGED <<midi, pc, call, result, config, workspaces>>

ParseOtherMessage(pool) ==
    /\ pc = "parse_other"
    /\ other.tracks # <<>>
    /\ MessageCount < MaxMsgs
    /\ \E msg \in pool :
          LET a == Alloc(heap, msg)
          IN  heap' = append(a.heap, other.tracks[Len(other.tracks)], a.ref)
    /\ UNCHANGED <<midi, other, pc, call, result, config, workspaces>>

Parsed == pc \in {"parse", "parse_other"} /\ midi.tracks # <<>>

\* the streams a caller can pass, by the name of the variable that holds them
Streams == IF pc = "parse_other" THEN {"midi", "other"} ELSE {"midi"}

Stream(name) == IF name = "other" THEN other ELSE midi

CallExtractFeatures ==
    /\ Parsed
    /\ \E midi_channel \in Channels :
          /\ call' = [op |-> "extract_features_from_channel", midi_channel |-> midi_channel]
          /\ result' = extract_features_from_channel(heap, midi, midi_channel)
    /\ pc' = "done"
    /\ UNCHANGED <<heap, midi, other, config, workspaces>>

CallRemap ==
    /\ Parsed
    /\ \E soundfont_id \in SoundfontIds :
          LET r == remap_midi(heap, midi, soundfont_id)
          IN  /\ call' = [op |-> "remap_midi", soundfont_id |-> soundfont_id]
              /\ heap' = r.heap
              /\ result' = r.outcome
    /\ pc' = "done"
    /\ UNCHANGED <<midi, other, config, workspaces>>

\* the metrics are called on the stream and itself, or on two streams
CallMelodySimilarity ==
    /\ Parsed
    /\ \E midi_a \in Streams, midi_b \in Streams, rounding \in RoundingErrors :
          /\ call' = [op |-> "melody_contour_similarity", midi_a |-> midi_a, midi_b |-> midi_b]
          /\ result' = melody_contour_similarity(heap, Stream(midi_a), Stream(midi_b), rounding)
    /\ pc' = "done"
    /\ UNCHANGED <<heap, midi, other, config, workspaces>>

CallOnsetAlignment ==
    /\ Parsed
    /\ \E midi_ref \in Streams, midi_cand \in Streams, tolerance_s \in Tolerances :
          /\ call' = [op |-> "onset_alignment_fmeasure", midi_ref |-> midi_ref,
                      midi_cand |-> midi_cand, tolerance_s |-> tolerance_s]
          /\ result' = onset_alignment_fmeasure(heap, Stream(midi_ref), Stream(midi_cand),
                                                tolerance_s)
    /\ pc' = "done"
    /\ UNCHANGED <<heap, midi, other, config, workspaces>>

(***************************************************************************)
(* Spec: streams of a usual and of a small resolution are parsed and       *)
(* remapped.                                                               *)
(***************************************************************************)
Init == InitStream({480, 2})

Next ==
    \/ ParseTrack
    \/ ParseMessage(RemapPool)
    \/ CallRemap

Spec == Init /\ [][Next]_vars

(***************************************************************************)
(* SpecFeatures: streams are parsed and a channel's features extracted.    *)
(***************************************************************************)
InitFeatures == InitStream({480, 4, 3})

NextFeatures ==
    \/ ParseTrack
    \/ ParseMessage(FeaturePool)
    \/ CallExtractFeatures

SpecFeatures == InitFeatures /\ [][NextFeatures]_vars

(***************************************************************************)
(* Observations of a stream used by the properties below.                  *)
(***************************************************************************)
Remapped == pc = "done" /\ call.op = "remap_midi" /\ result.kind = "ok"

\* the number of note-on messages of velocity > 0 of a track
NoteOns(msgs) ==
    Cardinality({i \in 1..Len(msgs) : msgs[i].type = "note_on" /\ msgs[i].velocity > 0})

NoteOnCount(h, m) == SumSeq([k \in 1..Len(m.tracks) |-> NoteOns(Messages(h, m.tracks[k]))])

\* the absolute tick of the i-th message of a track
AbsTick(msgs, i) == SumSeq([j \in 1..i |-> msgs[j].time])

\* the input and output track k of a remap, and the number of inserted messages
InTrack(k) == Messages(heap, midi.tracks[k])
OutTrack(k) == Messages(heap, result.value.tracks[k])
Inserted(k) == Len(OutTrack(k)) - Len(InTrack(k))

(***************************************************************************)
(* C1: remap_midi keeps the number of note-on events of velocity > 0: the  *)
(* output stream has exactly as many as the input stream.                  *)
(***************************************************************************)
C1_NoteOnCountPreserved ==
    (pc = "done" /\ call.op = "remap_midi") =>
        /\ result.kind = "ok"
        /\ NoteOnCount(heap, result.value) = NoteOnCount(heap, midi)

(***************************************************************************)
(* C2: in each track of the output of remap_midi the inserted messages are *)
(* program changes of delta-time 0 placed before every copied message, and *)
(* the copied messages keep the delta-times, hence the absolute ticks, of  *)
(* the input track.                                                        *)
(***************************************************************************)
C2_DeltaTimesPreserved ==
    (pc = "done" /\ call.op = "remap_midi") =>
        /\ result.kind = "ok"
        /\ \A k \in 1..Len(midi.tracks) :
              /\ Inserted(k) >= 0
              /\ \A i \in 1..Inserted(k) :
                    /\ OutTrack(k)[i].type = "program_change"
                    /\ OutTrack(k)[i].time = 0
              /\ \A i \in 1..Len(InTrack(k)) :
                    /\ OutTrack(k)[Inserted(k) + i].type = InTrack(k)[i].type
                    /\ OutTrack(k)[Inserted(k) + i].time = InTrack(k)[i].time
                    /\ AbsTick(OutTrack(k), Inserted(k) + i) = AbsTick(InTrack(k), i)

(***************************************************************************)
(* C3: a call of remap_midi leaves the input stream as it was: the list of *)
(* tracks, every track and every message (every field of it, also of the   *)
(* messages whose copies were rewritten) are unchanged, and the output it  *)
(* returns holds no object of the input.                                   *)
(***************************************************************************)
C3_InputNotMutated ==
    [][(pc = "parse" /\ pc' = "done" /\ call'.op = "remap_midi") =>
          /\ midi' = midi
          /\ \A id \in Objects(heap, midi) : heap'[id] = heap[id]
          /\ result'.kind = "ok" =>
                Objects(heap', result'.value) \cap Objects(heap, midi) = {}]_vars

\* a remap that rewrote the channel and the program of the copy of a program
\* change, whose original still has its own
C3_Witness ==
    /\ Remapped
    /\ \E k \in 1..Len(midi.tracks) : \E i \in 1..Len(InTrack(k)) :
          /\ InTrack(k)[i] = OldProgram
          /\ OutTrack(k)[Inserted(k) + i].channel = 9
          /\ OutTrack(k)[Inserted(k) + i].program = 0

(***************************************************************************)
(* C4: the output of remap_midi has as many tracks as the input, in the    *)
(* same order: output track k holds the copies of input track k.           *)
(***************************************************************************)
\* what a copy keeps of a message: everything but its channel and program
Content(msg) == [f \in DOMAIN msg \ {"channel", "program"} |-> msg[f]]

C4_TrackCountPreserved ==
    (pc = "done" /\ call.op = "remap_midi") =>
        /\ result.kind = "ok"
        /\ Len(result.value.tracks) = Len(midi.tracks)
        /\ \A k \in 1..Len(midi.tracks) :
              /\ Len(OutTrack(k)) >= Len(InTrack(k))
              /\ \A i \in 1..Len(InTrack(k)) :
                    Content(OutTrack(k)[Inserted(k) + i]) = Content(InTrack(k)[i])

(***************************************************************************)
(* Observations of a feature extraction.                                   *)
(***************************************************************************)
Extracted == pc = "done" /\ call.op = "extract_features_from_channel"

\* the messages of the stream that are on channel c
OnChannel(c) ==
    {heap[id] : id \in {x \in Objects(heap, midi) :
                           hasattr(heap[x], "channel") /\ heap[x].channel = c}}

\* the stream has a note-on of velocity > 0 on channel c
HasNote(c) == \E msg \in OnChannel(c) : msg.type = "note_on" /\ msg.velocity > 0

\* a fraction in [0, 1]
InUnit(f) == f.den > 0 /\ 0 <= f.num /\ f.num <= f.den

(***************************************************************************)
(* C6: extract_features_from_channel returns None exactly when the stream  *)
(* has no note-on of velocity > 0 on the channel; a channel with only      *)
(* note-offs, note-ons of velocity 0 or other messages gives None, not an  *)
(* error.                                                                  *)
(***************************************************************************)
C6_NoneIffSilent ==
    Extracted => ((result = Return(None)) <=> ~HasNote(call.midi_channel))

\* None for a channel that carries a note-off, a note-on of velocity 0 and a
\* program change
C6_Witness ==
    /\ Extracted
    /\ result = Return(None)
    /\ {NoteOff, SilentNoteOn, OldProgram} \subseteq OnChannel(call.midi_channel)

(***************************************************************************)
(* C9: the features returned satisfy note_count >= 1, pitch_min <=         *)
(* pitch_max, pitch_range = pitch_max - pitch_min, and note_repeat_rate,   *)
(* percussion_range_ratio, beat_aligned_ratio and syncopation_score are in *)
(* [0, 1].                                                                 *)
(***************************************************************************)
C9_FeatureInvariants ==
    (Extracted /\ result.kind = "ok" /\ result.value # None) =>
        LET f == result.value
        IN  /\ f.note_count >= 1
            /\ f.pitch_min <= f.pitch_max
            /\ f.pitch_range = f.pitch_max - f.pitch_min
            /\ InUnit(f.note_repeat_rate)
            /\ InUnit(f.percussion_range_ratio)
            /\ InUnit(f.beat_aligned_ratio)
            /\ InUnit(f.syncopation_score)

\* features of three notes of two pitches, with ratios strictly inside (0, 1)
C9_Witness ==
    /\ Extracted
    /\ result.kind = "ok"
    /\ result.value # None
    /\ result.value.note_count = 3
    /\ result.value.pitch_min < result.value.pitch_max
    /\ 0 < result.value.note_repeat_rate.num
    /\ result.value.percussion_range_ratio.num < result.value.percussion_range_ratio.den
    /\ 0 < result.value.beat_aligned_ratio.num
    /\ result.value.syncopation_score.num < result.value.syncopation_score.den

(***************************************************************************)
(* SpecResolution: streams of small, zero and negative resolution are      *)
(* parsed and passed to each of the four operations.                       *)
(***************************************************************************)
InitResolution == InitStream(EdgeResolutions)

NextResolution ==
    \/ ParseTrack
    \/ ParseMessage(ResolutionPool)
    \/ CallExtractFeatures
    \/ CallRemap
    \/ CallMelodySimilarity
    \/ CallOnsetAlignment

SpecResolution == InitResolution /\ [][NextResolution]_vars

\* the stream has a note-on of velocity > 0 on some channel
HasAnyNote == \E c \in 0..15 : HasNote(c)

(***************************************************************************)
(* C7: extract_features_from_channel never raises on a stream of           *)
(* ticks-per-beat > 0 (1, 2 and 3 included) and non-negative delta-times:  *)
(* it returns None or features.                                            *)
(***************************************************************************)
C7_ExtractTotal ==
    (Extracted /\ midi.ticks_per_beat > 0) => result.kind = "ok"

(***************************************************************************)
(* C8 as claimed: on a stream of ticks-per-beat <= 0 each of the four      *)
(* operations signals InvalidStreamError instead of returning.             *)
(***************************************************************************)
C8_InvalidStreamSignalled ==
    (pc = "done" /\ midi.ticks_per_beat <= 0) => result = Raise("InvalidStreamError")

(***************************************************************************)
(* C8 as amended: on a stream of ticks-per-beat <= 0 no operation signals  *)
(* InvalidStreamError.  Both metrics return a result (every onset time is  *)
(* 0.0).  Feature extraction and remap return a result when ticks-per-beat *)
(* is negative; when it is 0 feature extraction raises ZeroDivisionError   *)
(* exactly if the channel has a note-on of velocity > 0 (else it returns   *)
(* None), and remap exactly if some channel has one.                       *)
(***************************************************************************)
C8_InvalidResolutionOutcome ==
    (pc = "done" /\ midi.ticks_per_beat <= 0) =>
        /\ result # Raise("InvalidStreamError")
        /\ call.op \in {"melody_contour_similarity", "onset_alignment_fmeasure"} =>
              /\ result.kind = "ok"
              /\ \A i \in 1..Len(_extract_onset_times_seconds(heap, midi)) :
                    _extract_onset_times_seconds(heap, midi)[i] = Zero
        /\ (call.op \in {"extract_features_from_channel", "remap_midi"}
               /\ midi.ticks_per_beat < 0) => result.kind = "ok"
        /\ (call.op = "extract_features_from_channel" /\ midi.ticks_per_beat = 0) =>
              result = IF HasNote(call.midi_channel) THEN Raise("ZeroDivisionError")
                       ELSE Return(None)
        /\ (call.op = "remap_midi" /\ midi.ticks_per_beat = 0) =>
              IF HasAnyNote THEN result = Raise("ZeroDivisionError") ELSE result.kind = "ok"

\* features returned for a channel with a note at a delta-time > 0, from a
\* stream of resolution -1
C8_Witness ==
    /\ Extracted
    /\ midi.ticks_per_beat = -1
    /\ result.kind = "ok"
    /\ result.value # None
    /\ LoudNote \in OnChannel(call.midi_channel)

(***************************************************************************)
(* SpecClassify: a caller passes a channel, a feature vector and a         *)
(* soundfont id to classify_channel, or a program and a soundfont id to    *)
(* _program_for_soundfont.                                                 *)
(***************************************************************************)
\* feature vectors whose fields lie on and on each side of the thresholds
FeatureVectors ==
    { [channel_num |-> 0,
       pitch_min |-> pitch[1],
       pitch_max |-> pitch[2],
       pitch_range |-> pitch[2] - pitch[1],
       avg_velocity |-> Frac(80, 1),
       velocity_std |-> [sqrt_of |-> Frac(velocity_std * velocity_std, 1)],
       note_density |-> Frac(note_density, 1),
       avg_note_duration |-> Frac(avg_note_duration, 1),
       note_repeat_rate |-> Frac(note_repeat_rate, 10),
       percussion_range_ratio |-> Frac(percussion_range_ratio, 10),
       note_count |-> 10,
       avg_inter_onset_interval |-> Frac(240, 1),
       ioi_std |-> [sqrt_of |-> Frac(ioi_std * ioi_std, 1)],
       beat_aligned_ratio |-> Frac(beat_aligned_ratio, 10),
       syncopation_score |-> Frac(syncopation_score, 10)] :
      pitch \in {<<31, 54>>, <<30, 54>>, <<40, 55>>, <<60, 72>>, <<61, 72>>},
      velocity_std \in {30, 31},
      note_density \in {2, 3, 4},
      avg_note_duration \in {240, 300, 480, 961},
      note_repeat_rate \in {3, 4},
      percussion_range_ratio \in {7, 8},
      ioi_std \in {100, 101},
      beat_aligned_ratio \in {5, 6},
      syncopation_score \in {2, 3} }

ClassifyChannels == {0, 9, 13}

Programs == 0..128

ClassifyCalls ==
    { [op |-> "classify_channel", midi_channel |-> c, features |-> f, soundfont_id |-> id] :
      c \in ClassifyChannels, f \in FeatureVectors, id \in SoundfontIds }

PaletteCalls ==
    { [op |-> "_program_for_soundfont", gm_program |-> p, soundfont_id |-> id] :
      p \in Programs, id \in SoundfontIds }

InitClassify ==
    /\ heap = <<>>
    /\ midi = MidiFile(480)
    /\ other = MidiFile(480)
    /\ pc = "call"
    /\ call \in ClassifyCalls \cup PaletteCalls
    /\ result = NoResult
    /\ config = LoadedConfig
    /\ workspaces = {}

CallClassify ==
    /\ pc = "call"
    /\ call.op = "classify_channel"
    /\ result' = Return(classify_channel(call.midi_channel, call.features, call.soundfont_id))
    /\ pc' = "done"
    /\ UNCHANGED <<heap, midi, other, call, config, workspaces>>

CallProgramForSoundfont ==
    /\ pc = "call"
    /\ call.op = "_program_for_soundfont"
    /\ result' = Return(_program_for_soundfont(call.gm_program, call.soundfont_id))
    /\ pc' = "done"
    /\ UNCHANGED <<heap, midi, other, call, config, workspaces>>

NextClassify ==
    \/ CallClassify
    \/ CallProgramForSoundfont

SpecClassify == InitClassify /\ [][NextClassify]_vars

(***************************************************************************)
(* C5: classify_channel returns the outcome of the first rule that matches *)
(* in this order: (1) channel 9 -> 128; (2) percussion_range_ratio > 0.7,  *)
(* note_repeat_rate > 0.3, ioi_std > 100 and beat_aligned_ratio < 0.6 ->   *)
(* 128; (3) velocity_std > 30, note_density > 2.0, avg_note_duration < 480 *)
(* and syncopation_score > 0.2 -> 128; (4) pitch_max < 55 and pitch_range  *)
(* < 24 -> basses[channel mod len]; (5) pitch_min > 60, note_density < 4.0 *)
(* and avg_note_duration > 240 -> leads[channel mod len]; (6)              *)
(* avg_note_duration > 960 -> pads[channel mod len]; (7) otherwise         *)
(* leads[channel mod len].                                                 *)
(***************************************************************************)
RuleMatches(r, c, f) ==
    CASE r = 1 -> c = 9
      [] r = 2 -> /\ FracGT(f.percussion_range_ratio, 7, 10)
                  /\ FracGT(f.note_repeat_rate, 3, 10)
                  /\ StdGT(f.ioi_std, 100)
                  /\ FracLT(f.beat_aligned_ratio, 6, 10)
      [] r = 3 -> /\ StdGT(f.velocity_std, 30)
                  /\ FracGT(f.note_density, 2, 1)
                  /\ FracLT(f.avg_note_duration, 480, 1)
                  /\ FracGT(f.syncopation_score, 2, 10)
      [] r = 4 -> f.pitch_max < 55 /\ f.pitch_range < 24
      [] r = 5 -> /\ f.pitch_min > 60
                  /\ FracLT(f.note_density, 4, 1)
                  /\ FracGT(f.avg_note_duration, 240, 1)
      [] r = 6 -> FracGT(f.avg_note_duration, 960, 1)
      [] r = 7 -> TRUE

\* the i-th program, counting from 0 and wrapping around, of a list
Wrapped(list, i) == list[(i % Len(list)) + 1]

RuleOutcome(r, c, palette) ==
    CASE r \in {1, 2, 3} -> 128
      [] r = 4 -> Wrapped(palette.basses, c)
      [] r \in {5, 7} -> Wrapped(palette.leads, c)
      [] r = 6 -> Wrapped(palette.pads, c)

FirstRule(c, f) == MinSet({r \in 1..7 : RuleMatches(r, c, f)})

Classified == pc = "done" /\ call.op = "classify_channel"

C5_FirstMatchingRule ==
    Classified =>
        result = Return(RuleOutcome(FirstRule(call.midi_channel, call.features),
                                    call.midi_channel,
                                    get_instrument_set(call.soundfont_id)))

\* a vector that matches the lead rule and the pad rule, classified as a lead
\* of the "gba" palette for channel 13
C5_Witness ==
    /\ Classified
    /\ call.midi_channel = 13
    /\ call.soundfont_id = STR_gba
    /\ FirstRule(call.midi_channel, call.features) = 5
    /\ RuleMatches(6, call.midi_channel, call.features)
    /\ result = Return(88)

(***************************************************************************)
(* C10: _program_for_soundfont returns the program itself when it is in    *)
(* the allowed set of the style, and otherwise the first program of the    *)
(* allowed list that is not 128; it never raises and its result is always  *)
(* in the allowed set.                                                     *)
(***************************************************************************)
Resolved == pc = "done" /\ call.op = "_program_for_soundfont"

\* the allowed programs of a style, as listed in config.py
AllowedList(id) ==
    LET key == IF NormalizeId(id) \in DOMAIN SOUNDFONT_ALL_INSTRUMENTS
               THEN NormalizeId(id) ELSE STR_snes
    IN  SOUNDFONT_ALL_INSTRUMENTS[key]

C10_PaletteResolution ==
    Resolved =>
        LET allowed == AllowedList(call.soundfont_id)
            others == {i \in 1..Len(allowed) : allowed[i] # 128}
        IN  /\ result.kind = "ok"
            /\ result.value \in Range(allowed)
            /\ call.gm_program \in Range(allowed) => result.value = call.gm_program
            /\ call.gm_program \notin Range(allowed) =>
                  others # {} /\ result.value = allowed[MinSet(others)]

\* a program that is not in the "nds" palette, replaced by its first program
C10_Witness ==
    /\ Resolved
    /\ call.soundfont_id = STR_nds
    /\ call.gm_program = 41
    /\ result = Return(4)

(***************************************************************************)
(* SpecMetrics: two streams are parsed and a metric is called on the first *)
(* and itself or on a pair of them.                                        *)
(***************************************************************************)
\* a note of a second melodic channel
HighNote == Note("note_on", 1, 74, 90, 120)

MetricsPool == {SoftNote, LoudNote, HighNote, DrumNote, SetTempo}

InitMetrics == InitStream({480})

NextMetrics ==
    \/ ParseTrack
    \/ ParseMessage(MetricsPool)
    \/ ParseOther
    \/ ParseOtherTrack
    \/ ParseOtherMessage(MetricsPool)
    \/ CallMelodySimilarity
    \/ CallOnsetAlignment

SpecMetrics == InitMetrics /\ [][NextMetrics]_vars

\* a metric was called on a stream and itself
ComparedMelody == pc = "done" /\ call.op = "melody_contour_similarity"
ComparedOnsets == pc = "done" /\ call.op = "onset_alignment_fmeasure"

\* the messages of a stream, track after track
RECURSIVE AllMessages(_, _)
AllMessages(h, tracks) ==
    IF tracks = <<>> THEN <<>>
    ELSE Messages(h, Head(tracks)) \o AllMessages(h, Tail(tracks))

\* the places of the note-ons of velocity > 0 of channel c among them
NotePlaces(msgs, c) ==
    {i \in 1..Len(msgs) : /\ hasattr(msgs[i], "channel")
                          /\ msgs[i].channel = c
                          /\ msgs[i].type = "note_on"
                          /\ msgs[i].velocity > 0}

\* the pitches of the note-ons of velocity > 0 of channel c, in stream order
PitchesOn(h, tracks, c) ==
    LET msgs == AllMessages(h, tracks)
        places == sorted(NotePlaces(msgs, c))
    IN  [i \in 1..Len(places) |-> msgs[places[i]].note]

\* the melodic channels of a stream that are dominant: of the highest mean
\* pitch, and heard first among those of that mean
Dominant(m) ==
    LET msgs == AllMessages(heap, m.tracks)
        heard == [c \in 0..15 |-> PitchesOn(heap, m.tracks, c)]
    IN  {c \in 0..15 \ {9} :
           LET pitches == heard[c]
           IN  /\ pitches # <<>>
               /\ \A d \in 0..15 \ {9, c} :
                     LET others == heard[d]
                         below == SumSeq(others) * Len(pitches) < SumSeq(pitches) * Len(others)
                         level == SumSeq(others) * Len(pitches) = SumSeq(pitches) * Len(others)
                     IN  others # <<>> =>
                            \/ below
                            \/ level /\ MinSet(NotePlaces(msgs, c)) < MinSet(NotePlaces(msgs, d))}

\* the dominant melody of a stream: the pitches of its dominant channel
Melody(m) ==
    LET dominant == Dominant(m)
    IN  IF dominant = {} THEN <<>>
        ELSE PitchesOn(heap, m.tracks, CHOOSE c \in dominant : TRUE)

Constant(pitches) == Cardinality(Range(pitches)) <= 1

\* the dominant melody of the stream has two or more notes and is not constant
HasMelody(m) ==
    LET melody == Melody(m)
    IN  Len(melody) >= 2 /\ ~Constant(melody)

\* the double 1.0
IsOne(v) == v.sign = 1 /\ v.sqrt_of = Frac(1, 1) /\ v.ulps = 0

\* a double v with |v - 1.0| < 1e-6: v lies n units of 2^-53 below 1.0 and
\* n * 2^-53 < 2^30 * 2^-53 / 10^6 < 1e-6
NearOne(v) ==
    /\ v.sign = 1
    /\ v.sqrt_of = Frac(1, 1)
    /\ 0 <= v.ulps
    /\ v.ulps * 1000000 < 2^30

(***************************************************************************)
(* C11 as claimed: melody_contour_similarity(s, s) is exactly 1.0 for      *)
(* every stream s whose dominant melody has two or more notes and is not   *)
(* constant.                                                               *)
(***************************************************************************)
C11_SelfSimilarityIsOne ==
    (ComparedMelody /\ call.midi_a = call.midi_b /\ HasMelody(Stream(call.midi_a))) =>
        (result.kind = "ok" /\ IsOne(result.value))

(***************************************************************************)
(* C11 as amended: melody_contour_similarity(s, s) is 1.0 up to the        *)
(* rounding of the double arithmetic (it is at most 1.0 and differs from   *)
(* 1.0 by less than 1e-6) for every stream s whose dominant melody has two *)
(* or more notes and is not constant.                                      *)
(***************************************************************************)
C11_SelfSimilarityNearOne ==
    (ComparedMelody /\ call.midi_a = call.midi_b /\ HasMelody(Stream(call.midi_a))) =>
        (result.kind = "ok" /\ NearOne(result.value))

\* the second stream, with a drum note and the melody 84, 64 over two tracks,
\* compared with itself
C11_Witness ==
    /\ ComparedMelody
    /\ call.midi_a = "other"
    /\ call.midi_b = "other"
    /\ Len(other.tracks) = 2
    /\ PitchesOn(heap, other.tracks, 0) = <<84, 64>>
    /\ PitchesOn(heap, other.tracks, 9) # <<>>
    /\ NearOne(result.value)

\* the number of note-ons of velocity > 0 of a stream
OnsetCount(m) ==
    LET msgs == AllMessages(heap, m.tracks)
    IN  Cardinality({i \in 1..Len(msgs) : msgs[i].type = "note_on" /\ msgs[i].velocity > 0})

\* a fraction that is 1, one that is 0
IsUnit(f) == f.num = f.den /\ f.den > 0
IsZero(f) == f.num = 0 /\ f.den > 0

(***************************************************************************)
(* C12: onset_alignment_fmeasure(s, s, tolerance) returns precision,       *)
(* recall and f_measure 1.0 for every stream s with a note-on of velocity  *)
(* > 0 (in any number of tracks, equal onset times included) and every     *)
(* tolerance >= 0.                                                         *)
(***************************************************************************)
C12_SelfAlignmentPerfect ==
    (ComparedOnsets /\ call.midi_ref = call.midi_cand
        /\ OnsetCount(Stream(call.midi_ref)) >= 1) =>
        /\ result.kind = "ok"
        /\ IsUnit(result.value.precision)
        /\ IsUnit(result.value.recall)
        /\ IsUnit(result.value.f_measure)

\* a stream of two tracks with three onsets, two of them at the same time,
\* aligned with itself at tolerance 0
C12_Witness ==
    /\ ComparedOnsets
    /\ call.midi_ref = "midi"
    /\ call.midi_cand = "midi"
    /\ call.tolerance_s = Zero
    /\ Len(midi.tracks) = 2
    /\ LET onsets == _extract_onset_times_seconds(heap, midi)
       IN  Len(onsets) = 3 /\ onsets[1] = onsets[2] /\ onsets[2] # onsets[3]
    /\ IsUnit(result.value.f_measure)

\* a correlation coefficient in [-1, 1]
InCorrRange(v) ==
    /\ v.sign \in {-1, 0, 1}
    /\ v.sqrt_of.den > 0
    /\ 0 <= v.sqrt_of.num
    /\ v.sqrt_of.num <= v.sqrt_of.den
    /\ v.sqrt_of.num = v.sqrt_of.den => v.ulps >= 0

\* the matching onset_alignment_fmeasure computes for its two streams
Matching ==
    GreedyMatch(_extract_onset_times_seconds(heap, Stream(call.midi_ref)),
                _extract_onset_times_seconds(heap, Stream(call.midi_cand)),
                call.tolerance_s, 1,
                [matched_ref |-> {}, matched_cand |-> {}, true_positives |-> 0])

(***************************************************************************)
(* C13: for every pair of streams and every tolerance,                     *)
(* melody_contour_similarity returns a value in [-1, 1] and precision,     *)
(* recall and f_measure of onset_alignment_fmeasure are in [0, 1]; the     *)
(* true positives are no more than the candidate onsets nor than the       *)
(* reference onsets, since no candidate onset is matched twice.            *)
(***************************************************************************)
C13_MetricsInRange ==
    /\ ComparedMelody => (result.kind = "ok" /\ InCorrRange(result.value))
    /\ ComparedOnsets =>
          LET matching == Matching
          IN  /\ result.kind = "ok"
              /\ InUnit(result.value.precision)
              /\ InUnit(result.value.recall)
              /\ InUnit(result.value.f_measure)
              /\ matching.true_positives <= OnsetCount(Stream(call.midi_cand))
              /\ matching.true_positives <= OnsetCount(Stream(call.midi_ref))
              /\ matching.true_positives = Cardinality(matching.matched_cand)

\* two different streams, two reference onsets at the time of the only
\* candidate onset: one true positive, recall 0.5
C13_Witness ==
    /\ ComparedOnsets
    /\ call.midi_ref = "midi"
    /\ call.midi_cand = "other"
    /\ LET ref_onsets == _extract_onset_times_seconds(heap, midi)
           cand_onsets == _extract_onset_times_seconds(heap, other)
       IN  /\ Len(ref_onsets) = 2
           /\ Len(cand_onsets) = 1
           /\ ref_onsets[1] = cand_onsets[1]
           /\ ref_onsets[2] = cand_onsets[1]
    /\ Matching.true_positives = 1
    /\ result.value.recall = Frac(5000, 10000)
    /\ IsUnit(result.value.precision)

(***************************************************************************)
(* SpecPairs: a metric is called on two streams of one track each, drawn   *)
(* from the melodies of up to MaxMsgs notes each.                          *)
(***************************************************************************)
\* a track with the messages msgs appended to it, in the heap h
RECURSIVE AppendAll(_, _, _)
AppendAll(h, track, msgs) ==
    IF msgs = <<>> THEN h
    ELSE LET a == Alloc(h, Head(msgs))
         IN  AppendAll(append(a.heap, track, a.ref), track, Tail(msgs))

\* the stream of one track with the messages msgs, in the heap h
StreamOf(h, msgs) ==
    LET t == Alloc(h, MidiTrack)
    IN  [heap |-> AppendAll(t.heap, t.ref, msgs),
         stream |-> [MidiFile(480) EXCEPT !.tracks = <<t.ref>>]]

MelodyPool == {SoftNote, LoudNote}

Melodies == UNION {[1..n -> MelodyPool] : n \in 0..MaxMsgs}

InitPairs ==
    \E a \in Melodies, b \in Melodies :
        LET first == StreamOf(<<>>, a)
            second == StreamOf(first.heap, b)
        IN  /\ heap = second.heap
            /\ midi = first.stream
            /\ other = second.stream
            /\ pc = "parse_other"
            /\ call = NoCall
            /\ result = NoResult
            /\ config = LoadedConfig
            /\ workspaces = {}

NextPairs ==
    \/ CallMelodySimilarity
    \/ CallOnsetAlignment

SpecPairs == InitPairs /\ [][NextPairs]_vars

\* the first n pitches of a melody
Truncated(pitches, n) == SubSeq(pitches, 1, n)

\* the common length of the two melodies of a call
CommonLength ==
    LET n_a == Len(Melody(Stream(call.midi_a)))
        n_b == Len(Melody(Stream(call.midi_b)))
    IN  IF n_a < n_b THEN n_a ELSE n_b

(***************************************************************************)
(* C14: degenerate inputs give a neutral score, never an error:            *)
(* melody_contour_similarity returns 0.0 when a melody is empty, when the  *)
(* common truncated length is < 2, or when a truncated melody is constant; *)
(* onset_alignment_fmeasure returns precision = recall = f_measure = 0.0   *)
(* when a stream has no note-on of velocity > 0.                           *)
(***************************************************************************)
C14_DegenerateIsNeutral ==
    /\ (ComparedMelody
          /\ \/ CommonLength < 2
             \/ Constant(Truncated(Melody(Stream(call.midi_a)), CommonLength))
             \/ Constant(Truncated(Melody(Stream(call.midi_b)), CommonLength)))
         => result = Return(NoCorr)
    /\ (ComparedOnsets
          /\ \/ OnsetCount(Stream(call.midi_ref)) = 0
             \/ OnsetCount(Stream(call.midi_cand)) = 0)
         => /\ result.kind = "ok"
            /\ IsZero(result.value.precision)
            /\ IsZero(result.value.recall)
            /\ IsZero(result.value.f_measure)

\* the melody 64, 64, 84 compared with the melody 84, 64: the first two notes
\* of the first are constant
C14_Witness ==
    /\ ComparedMelody
    /\ call.midi_a = "midi"
    /\ call.midi_b = "other"
    /\ Melody(midi) = <<64, 64, 84>>
    /\ Melody(other) = <<84, 64>>
    /\ result = Return(NoCorr)

\* the five styles that are built in
BuiltInStyles == {STR_snes, STR_gba, STR_nds, STR_ps2, STR_wii}

(***************************************************************************)
(* C15: for every stream s with a note onset and every built-in style, the *)
(* sorted onset times of remap_midi(s, style) are those of s, and so       *)
(* onset_alignment_fmeasure(s, remap_midi(s, style), 0.05) has f_measure   *)
(* >= 0.9.                                                                 *)
(***************************************************************************)
C15_RemapKeepsOnsets ==
    (pc = "done" /\ call.op = "remap_midi" /\ call.soundfont_id \in BuiltInStyles
        /\ OnsetCount(midi) >= 1) =>
        /\ result.kind = "ok"
        /\ _extract_onset_times_seconds(heap, result.value)
              = _extract_onset_times_seconds(heap, midi)
        /\ LET score == onset_alignment_fmeasure(heap, midi, result.value, Frac(1, 20))
           IN  score.kind = "ok" /\ ~FracLess(score.value.f_measure, Frac(9, 10))

(***************************************************************************)
(* SpecFixture: the stream of the test fixture is parsed message by        *)
(* message; the features of a channel are extracted and, as in             *)
(* get_channel_classifications, the channel is classified from them.       *)
(***************************************************************************)
FixturePitches == <<60, 64, 67, 72, 67, 64, 60, 55>>

EndOfTrack == [type |-> "end_of_track", time |-> 0]

\* t0: the tempo; t1: a program change and the eight notes on channel 0
FixtureTracks ==
    << << [type |-> "set_tempo", tempo |-> 500000, time |-> 0], EndOfTrack >>,
       <<[type |-> "program_change", channel |-> 0, program |-> 0, time |-> 0]>>
       \o [i \in 1..(2 * Len(FixturePitches)) |->
              IF i % 2 = 1
              THEN Note("note_on", 0, FixturePitches[(i + 1) \div 2], 80, 0)
              ELSE Note("note_off", 0, FixturePitches[i \div 2], 0, 240)]
       \o <<EndOfTrack>> >>

\* the last track that was opened has all its messages
LastTrackRead ==
    midi.tracks # <<>> =>
        Len(heap[midi.tracks[Len(midi.tracks)]].msgs) = Len(FixtureTracks[Len(midi.tracks)])

ParseFixtureTrack ==
    /\ pc = "parse"
    /\ Len(midi.tracks) < Len(FixtureTracks)
    /\ LastTrackRead
    /\ LET t == Alloc(heap, MidiTrack)
       IN  /\ heap' = t.heap
           /\ midi' = [midi EXCEPT !.tracks = Append(@, t.ref)]
    /\ UNCHANGED <<other, pc, call, result, config, workspaces>>

ParseFixtureMessage ==
    /\ pc = "parse"
    /\ midi.tracks # <<>>
    /\ ~LastTrackRead
    /\ LET track == midi.tracks[Len(midi.tracks)]
           a == Alloc(heap, FixtureTracks[Len(midi.tracks)][Len(heap[track].msgs) + 1])
       IN  heap' = append(a.heap, track, a.ref)
    /\ UNCHANGED <<midi, other, pc, call, result, config, workspaces>>

\* if features: program = classify_channel(channel_num, features, soundfont_id)
CallClassifyFeatures ==
    /\ pc = "done"
    /\ call.op = "extract_features_from_channel"
    /\ result.kind = "ok"
    /\ result.value # None
    /\ \E soundfont_id \in SoundfontIds :
          /\ call' = [op |-> "classify_channel", midi_channel |-> call.midi_channel,
                      features |-> result.value, soundfont_id |-> soundfont_id]
          /\ result' = Return(classify_channel(call.midi_channel, result.value, soundfont_id))
    /\ UNCHANGED <<heap, midi, other, pc, config, workspaces>>

InitFixture == InitStream({480})

NextFixture ==
    \/ ParseFixtureTrack
    \/ ParseFixtureMessage
    \/ CallExtractFeatures
    \/ CallClassifyFeatures

SpecFixture == InitFixture /\ [][NextFixture]_vars

\* the whole fixture has been read
FixtureRead == Len(midi.tracks) = Len(FixtureTracks) /\ LastTrackRead

(***************************************************************************)
(* C16: for the stream of resolution 480 with one melody of 8 notes on     *)
(* channel 0, pitches 60, 64, 67, 72, 67, 64, 60, 55, velocity 80, onsets  *)
(* 240 ticks apart and each note released 240 ticks after its onset,       *)
(* extract_features_from_channel reports pitch_min 55, pitch_max 72,       *)
(* pitch_range 17 and note_count 8, and classify_channel(0, features,      *)
(* style) falls through to the default rule and returns the first lead of  *)
(* the style.                                                              *)
(***************************************************************************)
C16_FixtureFeatures ==
    (pc = "done" /\ FixtureRead /\ call.midi_channel = 0) =>
        /\ call.op = "extract_features_from_channel" =>
              /\ result.kind = "ok"
              /\ result.value # None
              /\ result.value.pitch_min = 55
              /\ result.value.pitch_max = 72
              /\ result.value.pitch_range = 17
              /\ result.value.note_count = 8
        /\ call.op = "classify_channel" =>
              /\ FirstRule(0, call.features) = 7
              /\ result = Return(Wrapped(get_instrument_set(call.soundfont_id).leads, 0))

\* the fixture classified for "gba": the first lead of that palette
C16_Witness ==
    /\ pc = "done"
    /\ FixtureRead
    /\ call.op = "classify_channel"
    /\ call.midi_channel = 0
    /\ call.soundfont_id = STR_gba
    /\ call.features.note_count = 8
    /\ call.features.pitch_min = 55
    /\ result = Return(GBA_LEADS[1])

\* channel_programs of the remap that returned: the resolved program of each
\* channel that has one
ResolvedPrograms ==
    ChannelPrograms(heap, midi, get_active_channels(heap, midi), call.soundfont_id, <<>>).value

\* the resolved assignment of a channel: its program and the channel it plays on
Assignment(programs, c) ==
    IF programs[c] = 128
    THEN [program |-> 0, channel |-> 9]
    ELSE [program |-> programs[c], channel |-> c]

(***************************************************************************)
(* C19: in the output of remap_midi, the copy of every message that has a  *)
(* channel c with a resolved program p has channel 9 if p is 128, whatever *)
(* c was, and c otherwise; the copy of a program change has the program of *)
(* the resolved assignment of c: p, or 0 (on channel 9) when p is 128.     *)
(***************************************************************************)
C19_CopiesRewritten ==
    Remapped =>
        LET programs == ResolvedPrograms
        IN  \A k \in 1..Len(midi.tracks) :
                LET track == InTrack(k)
                    new_track == OutTrack(k)
                IN  \A i \in 1..Len(track) :
                        LET msg == track[i]
                            new_msg == new_track[Len(new_track) - Len(track) + i]
                        IN  (hasattr(msg, "channel") /\ msg.channel \in DOMAIN programs) =>
                                /\ new_msg.channel = IF programs[msg.channel] = 128
                                                     THEN 9 ELSE msg.channel
                                /\ msg.type = "program_change" =>
                                      new_msg.program = IF programs[msg.channel] = 128
                                                        THEN 0 ELSE programs[msg.channel]

\* two notes that make channel 0 percussive: the copy of the soft one is on
\* channel 9
C19_Witness ==
    /\ Remapped
    /\ 0 \in DOMAIN ResolvedPrograms
    /\ ResolvedPrograms[0] = 128
    /\ \E k \in 1..Len(midi.tracks) : \E i \in 1..Len(InTrack(k)) :
          /\ InTrack(k)[i] = SoftNote
          /\ OutTrack(k)[Inserted(k) + i] = [SoftNote EXCEPT !.channel = 9]

(***************************************************************************)
(* C20: in each output track of remap_midi exactly one program change is   *)
(* inserted per distinct channel present in the input track, each of       *)
(* delta-time 0, in ascending order of channel id, and all of them before  *)
(* the first copied message.                                               *)
(***************************************************************************)
C20_OnePerChannelPresent ==
    Remapped =>
        \A k \in 1..Len(midi.tracks) :
            /\ Inserted(k) = Cardinality(TrackChannels(InTrack(k)))
            /\ \A i \in 1..Inserted(k) :
                  /\ OutTrack(k)[i].type = "program_change"
                  /\ OutTrack(k)[i].time = 0
            /\ \A i \in 1..Inserted(k) : \A j \in i..Inserted(k) :
                  OutTrack(k)[i].channel <= OutTrack(k)[j].channel
            /\ \A i \in 1..Len(InTrack(k)) :
                  Content(OutTrack(k)[Inserted(k) + i]) = Content(InTrack(k)[i])

(***************************************************************************)
(* C20 (amended): in each output track of remap_midi exactly one program   *)
(* change is inserted per distinct channel of the input track that has a   *)
(* resolved program, and none for a channel that has none; each has        *)
(* delta-time 0 and carries the resolved assignment of its channel; they   *)
(* are in ascending order of the channels of the input track they stand    *)
(* for, and all of them come before the first copied message.              *)
(***************************************************************************)
C20_OnePerResolvedChannel ==
    Remapped =>
        LET programs == ResolvedPrograms
        IN  \A k \in 1..Len(midi.tracks) :
                LET track == InTrack(k)
                    new_track == OutTrack(k)
                    inserted == Len(new_track) - Len(track)
                    channels == sorted({c \in TrackChannels(track) : c \in DOMAIN programs})
                IN  /\ inserted = Len(channels)
                    /\ \A i \in 1..Len(channels) :
                          new_track[i] = ProgramChange(Assignment(programs, channels[i]).program,
                                                       Assignment(programs, channels[i]).channel)
                    /\ \A i \in 1..Len(track) :
                          Content(new_track[inserted + i]) = Content(track[i])

\* a track with a drum note, then a soft note on channel 0, and a program
\* change of channel 0: the program change of channel 0 is inserted first,
\* then the one of the drum channel, then come the three copies
C20_Witness ==
    /\ Remapped
    /\ call.soundfont_id = STR_snes
    /\ Len(midi.tracks) = 1
    /\ InTrack(1) = <<DrumNote, SoftNote, OldProgram>>
    /\ Len(OutTrack(1)) = 5
    /\ OutTrack(1)[1] = ProgramChange(SNES_LEADS[1], 0)
    /\ OutTrack(1)[2] = ProgramChange(0, 9)
    /\ OutTrack(1)[3] = DrumNote

(***************************************************************************)
(* schema.py and api.py: POST /api/remaster.  The handler's frame (its     *)
(* arguments and locals) is in call, its response in result.  The files it *)
(* writes, the audio rendering and the metadata are left out.              *)
(***************************************************************************)
ALLOWED_MIDI_EXTENSIONS == <<<<46, 109, 105, 100>>, <<46, 109, 105, 100, 105>>>>              \* (".mid", ".midi")

MAX_UPLOAD_BYTES == 50 * 1024 * 1024

ALLOWED_UPLOAD_CONTENT_TYPES ==
    { <<97, 117, 100, 105, 111, 47, 109, 105, 100, 105>>,                          \* "audio/midi"
      <<97, 112, 112, 108, 105, 99, 97, 116, 105, 111, 110, 47, 111, 99, 116, 101, 116, 45, 115, 116, 114, 101, 97, 109>>,                              \* "application/octet-stream"
      <<97, 117, 100, 105, 111, 47, 120, 45, 109, 105, 100, 105>> }                             \* "audio/x-midi"

\* soundfonts/__init__.py: {sid for sid, _ in _REGISTRY}
VALID_IDS == {STR_snes, STR_gba, STR_nds, STR_ps2, STR_wii}

\* str.endswith(suffix)
endswith(s, suffix) ==
    Len(s) >= Len(suffix) /\ SubSeq(s, Len(s) - Len(suffix) + 1, Len(s)) = suffix

is_allowed_extension(filename) ==
    LET fn == lower(strip(filename))
    IN  \E i \in 1..Len(ALLOWED_MIDI_EXTENSIONS) : endswith(fn, ALLOWED_MIDI_EXTENSIONS[i])

\* content_type.split(";")[0]
RECURSIVE BeforeSemicolon(_)
BeforeSemicolon(s) ==
    IF s = <<>> \/ Head(s) = 59 THEN <<>> ELSE <<Head(s)>> \o BeforeSemicolon(Tail(s))

\* a missing content type (None) is the empty string here: `not content_type`
is_allowed_content_type(content_type) ==
    IF content_type = <<>> THEN TRUE
    ELSE lower(strip(BeforeSemicolon(content_type))) \in ALLOWED_UPLOAD_CONTENT_TYPES

\* raise HTTPException(status_code, detail=error_body(..., code=code))
HTTPException(status_code, code) ==
    [kind |-> "raise", exc |-> "HTTPException", status_code |-> status_code, code |-> code]

\* for channel_num in active_channels: ...: the program of each channel that has notes
RECURSIVE Classifications(_, _, _, _, _)
Classifications(h, m, active_channels, soundfont_id, classifications) ==
    IF active_channels = <<>> THEN Return(classifications)
    ELSE LET channel_num == Head(active_channels)
             features == extract_features_from_channel(h, m, channel_num)
         IN  IF features.kind = "raise" THEN features
             ELSE IF features.value # None
             THEN Classifications(h, m, Tail(active_channels), soundfont_id,
                      (channel_num :> classify_channel(channel_num, features.value, soundfont_id))
                          @@ classifications)
             ELSE Classifications(h, m, Tail(active_channels), soundfont_id, classifications)

get_channel_classifications(h, m, soundfont_id) ==
    Classifications(h, m, get_active_channels(h, m), soundfont_id, <<>>)

chunk_size == 1024 * 1024

\* the uploads a client sends: file name, content type and size of the body
Filenames ==
    { <<98, 97, 100, 46, 116, 120, 116>>,                             \* "bad.txt"
      <<98, 105, 103, 46, 109, 105, 100>>,                             \* "big.mid"
      <<83, 111, 110, 103, 46, 77, 73, 68, 73, 32>>,                               \* "Song.MIDI "
      <<109, 105, 100>>,                            \* "mid"
      <<>> }                                \* no file name

ContentTypes ==
    { <<>>,                                 \* none
      <<97, 117, 100, 105, 111, 47, 109, 105, 100, 105>>,                          \* "audio/midi"
      <<116, 101, 120, 116, 47, 112, 108, 97, 105, 110>>,                               \* "text/plain"
      <<65, 117, 100, 105, 111, 47, 88, 45, 77, 105, 100, 105, 59, 32, 99, 104, 97, 114, 115, 101, 116, 61, 98, 105, 110, 97, 114, 121>>,   \* "Audio/X-Midi; charset=binary"
      <<97, 112, 112, 108, 105, 99, 97, 116, 105, 111, 110, 47, 111, 99, 116, 101, 116, 45, 115, 116, 114, 101, 97, 109>> }                             \* "application/octet-stream"

BodySizes == {0, 100, MAX_UPLOAD_BYTES, MAX_UPLOAD_BYTES + 1, MAX_UPLOAD_BYTES + chunk_size + 1}

SoundfontFields == {STR_snes, <<32, 71, 66, 65, 32>>, <<110, 54, 52>>}   \* "snes", " GBA ", "n64"

\* what the codec finds in an uploaded body: the messages of its track
UploadedTracks == {<<>>, <<SoftNote>>, <<SoftNote, LoudNote>>, <<DrumNote, OldProgram>>}

\* uuid.uuid4().hex: the names a workspace can get
RequestIds == {"0f3a", "9c1e"}

\* a str, where None can stand as well
Str(s) == [type |-> "str", value |-> s]

\* str(e) of what the rendering of the audio raises; "" is an empty message
RenderErrors == {"", "fluidsynth not found"}

InitRemaster ==
    /\ heap = <<>>
    /\ midi = MidiFile(480)
    /\ other = MidiFile(480)
    /\ pc = "request"
    /\ call \in { [op |-> "remaster",
                   file |-> [filename |-> filename, content_type |-> content_type, size |-> size],
                   soundfont |-> soundfont] :
                  filename \in Filenames, content_type \in ContentTypes,
                  size \in BodySizes, soundfont \in SoundfontFields }
    /\ result = NoResult
    /\ config = LoadedConfig
    /\ workspaces = {}

\* (mutant) the content type is checked before the extension
ValidateUpload_TypeFirst ==
    /\ pc = "request"
    /\ LET stripped == lower(strip(call.soundfont))
           soundfont == IF stripped \in VALID_IDS THEN stripped ELSE STR_snes
       IN  IF ~is_allowed_content_type(call.file.content_type)
           THEN /\ result' = HTTPException(415, "INVALID_CONTENT_TYPE")
                /\ call' = [call EXCEPT !.soundfont = soundfont]
                /\ pc' = "done"
           ELSE IF ~is_allowed_extension(call.file.filename)
           THEN /\ result' = HTTPException(400, "INVALID_EXTENSION")
                /\ call' = [call EXCEPT !.soundfont = soundfont]
                /\ pc' = "done"
           ELSE /\ call' = [op |-> call.op, file |-> call.file, soundfont |-> soundfont,
                            read_size |-> 0]
                /\ pc' = "workspace"
                /\ UNCHANGED result
    /\ UNCHANGED <<heap, midi, other, config, workspaces>>

\* the soundfont is normalised, then the extension and the content type are checked
ValidateUpload ==
    /\ pc = "request"
    /\ LET stripped == lower(strip(call.soundfont))
           soundfont == IF stripped \in VALID_IDS THEN stripped ELSE STR_snes
       IN  IF ~is_allowed_extension(call.file.filename)
           THEN /\ result' = HTTPException(400, "INVALID_EXTENSION")
                /\ call' = [call EXCEPT !.soundfont = soundfont]
                /\ pc' = "done"
           ELSE IF ~is_allowed_content_type(call.file.content_type)
           THEN /\ result' = HTTPException(415, "INVALID_CONTENT_TYPE")
                /\ call' = [call EXCEPT !.soundfont = soundfont]
                /\ pc' = "done"
           ELSE /\ call' = [op |-> call.op, file |-> call.file, soundfont |-> soundfont,
                            read_size |-> 0]
                /\ pc' = "workspace"
                /\ UNCHANGED result
    /\ UNCHANGED <<heap, midi, other, config, workspaces>>

\* workspace = create_workspace(): a fresh directory under TEMP_DIR, named by
\* a random id
CreateWorkspace ==
    /\ pc = "workspace"
    /\ \E name \in RequestIds \ workspaces :
          /\ workspaces' = workspaces \cup {name}
          /\ call' = ("workspace" :> name) @@ call
    /\ pc' = "read"
    /\ UNCHANGED <<heap, midi, other, result, config>>

\* one turn of the loop: chunk = await file.read(chunk_size); ...
ReadChunk ==
    /\ pc = "read"
    /\ LET left == call.file.size - call.read_size
           chunk == IF left < chunk_size THEN left ELSE chunk_size      \* len(chunk)
           read_size == call.read_size + chunk
       IN  IF chunk = 0
           THEN pc' = "parse" /\ UNCHANGED <<call, result>>
           ELSE /\ call' = [call EXCEPT !.read_size = read_size]
                /\ IF read_size > MAX_UPLOAD_BYTES
                   THEN result' = HTTPException(413, "PAYLOAD_TOO_LARGE") /\ pc' = "except"
                   ELSE UNCHANGED <<result, pc>>
    /\ UNCHANGED <<heap, midi, other, config, workspaces>>

\* input_path.write_bytes(content), then mido.MidiFile(input_path) in a
\* thread, awaited for at most 30 s: it times out, one of the two raises, or
\* (of a body that is not empty) the codec returns a stream
ParseUpload ==
    /\ pc = "parse"
    /\ \/ /\ result' = HTTPException(400, "MIDI_PARSE_TIMEOUT")
          /\ pc' = "except"
          /\ UNCHANGED <<heap, midi>>
       \/ /\ result' = Raise("OSError")
          /\ pc' = "except"
          /\ UNCHANGED <<heap, midi>>
       \/ /\ call.file.size > 0
          /\ \E msgs \in UploadedTracks, ticks_per_beat \in {480, 2} :
                LET s == StreamOf(heap, msgs)
                IN  /\ heap' = s.heap
                    /\ midi' = [s.stream EXCEPT !.ticks_per_beat = ticks_per_beat]
          /\ pc' = "process"
          /\ UNCHANGED result
    /\ UNCHANGED <<other, call, config, workspaces>>

\* classifications = get_channel_classifications(...); output_midi = remap_midi(...);
\* output_midi.save(str(output_path)), which may fail
ProcessUpload ==
    /\ pc = "process"
    /\ LET classifications == get_channel_classifications(heap, midi, call.soundfont)
           r == remap_midi(heap, midi, call.soundfont)
       IN  IF classifications.kind = "raise"
           THEN result' = classifications /\ pc' = "except" /\ UNCHANGED <<heap, call>>
           ELSE IF r.outcome.kind = "raise"
           THEN result' = r.outcome /\ pc' = "except" /\ UNCHANGED <<heap, call>>
           ELSE /\ heap' = r.heap
                /\ call' = ("classifications" :> classifications.value) @@ call
                /\ \/ result' = Raise("OSError") /\ pc' = "except"
                   \/ pc' = "render" /\ UNCHANGED result
    /\ UNCHANGED <<midi, other, config, workspaces>>

\* the soundfont file is there or not, and the rendering of the audio
\* succeeds, or raises or times out: an exception is caught and kept in
\* audio_error
RenderAudio ==
    /\ pc = "render"
    /\ \E exists \in BOOLEAN, audio_path \in {"song.mp3"} \cup RenderErrors :
          LET rendered == exists /\ audio_path \notin RenderErrors
              audio_url == IF rendered
                           THEN [path |-> "/download/audio", request_id |-> call.workspace,
                                 name |-> audio_path, sf |-> call.soundfont]
                           ELSE None
              audio_error == IF ~exists THEN Str("Soundfont not found")
                             ELSE IF rendered THEN None
                             ELSE IF audio_path = "" THEN Str("Audio rendering failed.")
                             ELSE Str(audio_path)
          IN  call' = ("audio_url" :> audio_url) @@ ("audio_error" :> audio_error) @@ call
    /\ pc' = "metadata"
    /\ UNCHANGED <<heap, midi, other, result, config, workspaces>>

\* the cleanup is scheduled, metadata.json is written, which may fail, and
\* the response is returned
WriteMetadata ==
    /\ pc = "metadata"
    /\ \/ result' = Raise("OSError") /\ pc' = "except"
       \/ /\ result' = Return([status_code |-> 200, request_id |-> call.workspace,
                               audio_url |-> call.audio_url, audio_error |-> call.audio_error,
                               soundfont |-> call.soundfont,
                               classifications |-> call.classifications])
          /\ pc' = "done"
    /\ UNCHANGED <<heap, midi, other, call, config, workspaces>>

\* (mutant) an HTTPException is raised again with the workspace left in place
HandleException_KeepsWorkspace ==
    /\ pc = "except"
    /\ IF result.exc = "HTTPException"
       THEN UNCHANGED <<result, workspaces>>
       ELSE /\ workspaces' = workspaces \ {call.workspace}
            /\ result' = HTTPException(500, "PROCESSING_ERROR")
    /\ pc' = "done"
    /\ UNCHANGED <<heap, midi, other, call, config>>

\* except HTTPException: rmtree(workspace); raise
\* except Exception: rmtree(workspace); raise HTTPException(500, ...)
HandleException ==
    /\ pc = "except"
    /\ workspaces' = workspaces \ {call.workspace}
    /\ IF result.exc = "HTTPException"
       THEN UNCHANGED result
       ELSE result' = HTTPException(500, "PROCESSING_ERROR")
    /\ pc' = "done"
    /\ UNCHANGED <<heap, midi, other, call, config>>

\* the background task of a response: half an hour on, the workspace is removed
delayed_cleanup ==
    /\ pc = "done"
    /\ call.op = "remaster"
    /\ result.kind = "ok"
    /\ call.workspace \in workspaces
    /\ workspaces' = workspaces \ {call.workspace}
    /\ UNCHANGED <<heap, midi, other, pc, call, result, config>>

NextRemaster ==
    \/ ValidateUpload
    \/ CreateWorkspace
    \/ ReadChunk
    \/ ParseUpload
    \/ ProcessUpload
    \/ RenderAudio
    \/ WriteMetadata
    \/ HandleException
    \/ delayed_cleanup

SpecRemaster == InitRemaster /\ [][NextRemaster]_vars

\* the status and the error code of the response
Responded(status_code, code) ==
    /\ result.kind = "raise"
    /\ result.status_code = status_code
    /\ result.code = code

(***************************************************************************)
(* C18: POST /api/remaster validates an upload in a fixed order and the    *)
(* first check that fails determines the response: a file name that does   *)
(* not end in .mid or .midi (whatever its case and the blanks around it)   *)
(* yields 400 INVALID_EXTENSION, also when the content type is disallowed  *)
(* too; otherwise a disallowed content type yields 415                     *)
(* INVALID_CONTENT_TYPE; otherwise a body whose cumulative size exceeds    *)
(* MAX_UPLOAD_BYTES yields 413 PAYLOAD_TOO_LARGE, before anything is       *)
(* parsed or remapped.                                                     *)
(***************************************************************************)
C18_ValidationOrder ==
    (pc = "done" /\ call.op = "remaster") =>
        LET extension == is_allowed_extension(call.file.filename)
            content_type == is_allowed_content_type(call.file.content_type)
        IN  /\ ~extension => Responded(400, "INVALID_EXTENSION")
            /\ (extension /\ ~content_type) => Responded(415, "INVALID_CONTENT_TYPE")
            /\ (extension /\ content_type /\ call.file.size > MAX_UPLOAD_BYTES) =>
                  /\ Responded(413, "PAYLOAD_TOO_LARGE")
                  /\ heap = <<>>
                  /\ midi.tracks = <<>>

\* "bad.txt" sent as text/plain: the extension decides, 400
C18_Witness ==
    /\ pc = "done"
    /\ call.op = "remaster"
    /\ call.file.filename = <<98, 97, 100, 46, 116, 120, 116>>
    /\ call.file.content_type = <<116, 101, 120, 116, 47, 112, 108, 97, 105, 110>>
    /\ Responded(400, "INVALID_EXTENSION")

(***************************************************************************)
(* SpecConcurrent: two threads call the core operations at the same time,  *)
(* each on its own stream: thread 1 on midi, thread 2 on other.  The heap  *)
(* and the dictionaries of config.py are shared.  pc, call and result have *)
(* one entry per thread; call[p] is the frame of the call: its arguments   *)
(* and, for remap_midi, its locals.  remap_midi is interleaved at its      *)
(* loops: after channel_programs is filled, and after each track.          *)
(***************************************************************************)
Threads == {1, 2}

\* the stream a thread works on
Own(p) == IF p = 1 THEN midi ELSE other

\* the stream m with the tracks given as sequences of messages, in the heap h
RECURSIVE BuildStream(_, _, _)
BuildStream(h, tracks, m) ==
    IF tracks = <<>> THEN [heap |-> h, stream |-> m]
    ELSE LET t == Alloc(h, MidiTrack)
         IN  BuildStream(AppendAll(t.heap, t.ref, Head(tracks)), Tail(tracks),
                         [m EXCEPT !.tracks = Append(@, t.ref)])

ConcurrentStreams ==
    { << <<SoftNote, LoudNote>>, <<DrumNote, OldProgram>> >>,
      << <<SoftNote>> >> }

\* the fixture's features, and features of a pad
ConcurrentFeatures ==
    { f \in FeatureVectors :
        /\ f.pitch_min = 60 /\ f.velocity_std.sqrt_of.num = 900 /\ f.note_density.num = 2
        /\ f.avg_note_duration.num \in {240, 961}
        /\ f.note_repeat_rate.num = 3 /\ f.percussion_range_ratio.num = 7
        /\ f.ioi_std.sqrt_of.num = 10000 /\ f.beat_aligned_ratio.num = 5
        /\ f.syncopation_score.num = 2 }

\* the calls a thread makes
Invocations ==
    { [op |-> "extract_features_from_channel", midi_channel |-> c] : c \in {0, 9} }
    \cup { [op |-> "classify_channel", midi_channel |-> c, features |-> f, soundfont_id |-> id] :
           c \in {0, 13}, f \in ConcurrentFeatures, id \in {STR_snes, STR_gba} }
    \cup { [op |-> "remap_midi", soundfont_id |-> id] : id \in {STR_snes, STR_gba} }
    \cup { [op |-> "melody_contour_similarity", rounding |-> r] : r \in {0, 1} }
    \cup { [op |-> "onset_alignment_fmeasure", tolerance_s |-> t] : t \in Tolerances }

InitConcurrent ==
    \E a \in ConcurrentStreams, b \in ConcurrentStreams, tpb_a \in {480, 2}, tpb_b \in {480, 2} :
        LET first == BuildStream(<<>>, a, MidiFile(tpb_a))
            second == BuildStream(first.heap, b, MidiFile(tpb_b))
        IN  /\ heap = second.heap
            /\ midi = first.stream
            /\ other = second.stream
            /\ pc = [p \in Threads |-> "idle"]
            /\ call = [p \in Threads |-> NoCall]
            /\ result = [p \in Threads |-> NoResult]
            /\ config = LoadedConfig
            /\ workspaces = {}

Invoke(p) ==
    /\ pc[p] = "idle"
    /\ \E frame \in Invocations : call' = [call EXCEPT ![p] = frame]
    /\ pc' = [pc EXCEPT ![p] = "running"]
    /\ UNCHANGED <<heap, midi, other, result, config, workspaces>>

Running(p, op) == pc[p] = "running" /\ call[p].op = op

ReturnExtract(p) ==
    /\ Running(p, "extract_features_from_channel")
    /\ result' = [result EXCEPT
                     ![p] = extract_features_from_channel(heap, Own(p), call[p].midi_channel)]
    /\ pc' = [pc EXCEPT ![p] = "done"]
    /\ UNCHANGED <<heap, midi, other, call, config, workspaces>>

\* (mutant) the lead that was handed out is moved to the end of the shared list
ReturnClassify_Rotates(p) ==
    /\ Running(p, "classify_channel")
    /\ result' = [result EXCEPT
                     ![p] = Return(classify_channel(call[p].midi_channel, call[p].features,
                                                    call[p].soundfont_id))]
    /\ pc' = [pc EXCEPT ![p] = "done"]
    /\ config' = [config EXCEPT
                     !.SOUNDFONT_INSTRUMENT_SETS[NormalizeId(call[p].soundfont_id)].leads =
                         Tail(@) \o <<Head(@)>>]
    /\ UNCHANGED <<heap, midi, other, call, workspaces>>

\* classify_channel reads the palette out of the shared dictionaries
ReturnClassify(p) ==
    /\ Running(p, "classify_channel")
    /\ result' = [result EXCEPT
                     ![p] = Return(classify_channel(call[p].midi_channel, call[p].features,
                                                    call[p].soundfont_id))]
    /\ pc' = [pc EXCEPT ![p] = "done"]
    /\ UNCHANGED <<heap, midi, other, call, config, workspaces>>

\* the first loop of remap_midi: channel_programs is filled, or the call raises
RemapPrograms(p) ==
    /\ Running(p, "remap_midi")
    /\ "channel_programs" \notin DOMAIN call[p]
    /\ LET channel_programs ==
               ChannelPrograms(heap, Own(p), get_active_channels(heap, Own(p)),
                               call[p].soundfont_id, <<>>)
       IN  IF channel_programs.kind = "raise"
           THEN /\ result' = [result EXCEPT ![p] = channel_programs]
                /\ pc' = [pc EXCEPT ![p] = "done"]
                /\ UNCHANGED call
           ELSE /\ call' = [call EXCEPT
                               ![p] = [op |-> call[p].op, soundfont_id |-> call[p].soundfont_id,
                                       channel_programs |-> channel_programs.value,
                                       output_midi |-> MidiFile(Own(p).ticks_per_beat)]]
                /\ UNCHANGED <<result, pc>>
    /\ UNCHANGED <<heap, midi, other, config, workspaces>>

\* one turn of the loop over the tracks
RemapNextTrack(p) ==
    /\ Running(p, "remap_midi")
    /\ "channel_programs" \in DOMAIN call[p]
    /\ Len(call[p].output_midi.tracks) < Len(Own(p).tracks)
    /\ LET r == RemapTrack(heap, Own(p).tracks[Len(call[p].output_midi.tracks) + 1],
                           call[p].channel_programs)
       IN  /\ heap' = r.heap
           /\ call' = [call EXCEPT ![p].output_midi.tracks = Append(@, r.ref)]
    /\ UNCHANGED <<midi, other, pc, result, config, workspaces>>

\* return output_midi
ReturnRemap(p) ==
    /\ Running(p, "remap_midi")
    /\ "channel_programs" \in DOMAIN call[p]
    /\ Len(call[p].output_midi.tracks) = Len(Own(p).tracks)
    /\ result' = [result EXCEPT ![p] = Return(call[p].output_midi)]
    /\ pc' = [pc EXCEPT ![p] = "done"]
    /\ UNCHANGED <<heap, midi, other, call, config, workspaces>>

ReturnMelodySimilarity(p) ==
    /\ Running(p, "melody_contour_similarity")
    /\ result' = [result EXCEPT
                     ![p] = melody_contour_similarity(heap, Own(p), Own(p), call[p].rounding)]
    /\ pc' = [pc EXCEPT ![p] = "done"]
    /\ UNCHANGED <<heap, midi, other, call, config, workspaces>>

ReturnOnsetAlignment(p) ==
    /\ Running(p, "onset_alignment_fmeasure")
    /\ result' = [result EXCEPT
                     ![p] = onset_alignment_fmeasure(heap, Own(p), Own(p), call[p].tolerance_s)]
    /\ pc' = [pc EXCEPT ![p] = "done"]
    /\ UNCHANGED <<heap, midi, other, call, config, workspaces>>

NextConcurrent ==
    \E p \in Threads :
        \/ Invoke(p)
        \/ ReturnExtract(p)
        \/ ReturnClassify(p)
        \/ RemapPrograms(p)
        \/ RemapNextTrack(p)
        \/ ReturnRemap(p)
        \/ ReturnMelodySimilarity(p)
        \/ ReturnOnsetAlignment(p)

SpecConcurrent == InitConcurrent /\ [][NextConcurrent]_vars

\* the heap as it was before any call: the objects of the two input streams
InitialHeap == SubSeq(heap, 1, Cardinality(Objects(heap, midi) \cup Objects(heap, other)))

\* what a caller sees of an outcome: of a returned stream, its tracks' messages
Observed(h, op, outcome) ==
    IF op = "remap_midi" /\ outcome.kind = "ok"
    THEN Return([outcome.value EXCEPT !.tracks = Tracks(h, outcome.value)])
    ELSE outcome

\* the outcome of the call of a frame on the stream m when nothing else runs
RunAlone(h, m, frame) ==
    CASE frame.op = "extract_features_from_channel" ->
             extract_features_from_channel(h, m, frame.midi_channel)
      [] frame.op = "classify_channel" ->
             Return(classify_channel(frame.midi_channel, frame.features, frame.soundfont_id))
      [] frame.op = "remap_midi" ->
             LET r == remap_midi(h, m, frame.soundfont_id)
             IN  Observed(r.heap, frame.op, r.outcome)
      [] frame.op = "melody_contour_similarity" ->
             melody_contour_similarity(h, m, m, frame.rounding)
      [] frame.op = "onset_alignment_fmeasure" ->
             onset_alignment_fmeasure(h, m, m, frame.tolerance_s)

(***************************************************************************)
(* C17: the core operations share no mutable state.  In any interleaving   *)
(* of calls of extract_features_from_channel, classify_channel, remap_midi *)
(* and the two metrics by two threads on their own streams and styles, no  *)
(* step writes the palette configuration or an object that is already in   *)
(* the heap, every call returns what it returns when it runs alone on the  *)
(* initial heap, and two calls of classify_channel with the same arguments *)
(* return the same.                                                        *)
(***************************************************************************)
C17_NoSharedMutableState ==
    [][/\ config' = config
       /\ SubSeq(heap', 1, Len(heap)) = heap
       /\ \A p \in Threads :
             (pc[p] # "done" /\ pc'[p] = "done") =>
                 Observed(heap', call'[p].op, result'[p]) = RunAlone(InitialHeap, Own(p), call'[p])
       /\ \A p \in Threads : \A q \in Threads :
             (/\ pc'[p] = "done"
              /\ pc'[q] = "done"
              /\ call'[p].op = "classify_channel"
              /\ call'[q] = call'[p]) => result'[q] = result'[p]]_vars

\* two remaps of two-track streams whose track loops were interleaved (the
\* second track of each was made after the first track of the other), and
\* both returned
C17_Witness ==
    /\ pc = [p \in Threads |-> "done"]
    /\ call[1].op = "remap_midi"
    /\ call[2].op = "remap_midi"
    /\ call[1].soundfont_id # call[2].soundfont_id
    /\ result[1].kind = "ok"
    /\ result[2].kind = "ok"
    /\ Len(result[1].value.tracks) = 2
    /\ Len(result[2].value.tracks) = 2
    /\ result[1].value.tracks[1] < result[2].value.tracks[1]
    /\ result[2].value.tracks[1] < result[1].value.tracks[2]
    /\ result[1].value.tracks[2] < result[2].value.tracks[2]
    /\ Observed(heap, call[2].op, result[2]) = RunAlone(InitialHeap, other, call[2])

(***************************************************************************)
(* SpecOnsets: two streams of one or two tracks are drawn, of up to        *)
(* MaxStreamMsgs messages each, and the onsets of one are extracted or the *)
(* two are aligned.  At 480 ticks per beat and the default tempo a tick is *)
(* 1/960 s, and the tolerance of 0.05 s is 48 ticks.                       *)
(***************************************************************************)
MaxStreamMsgs == 2

DrumOnset == Note("note_on", 9, 36, 100, 24)      \* a drum note 24 ticks on
LateOnset == Note("note_on", 0, 64, 40, 40)       \* a note 40 ticks on
LateTempo == [type |-> "set_tempo", tempo |-> 250000, time |-> 24]

OnsetPool == {DrumOnset, LateOnset, LateTempo}

\* the streams of n messages: in one track, or split over two
OnsetStreams ==
    UNION { { <<t>> : t \in [1..n -> OnsetPool] }
            \cup { <<SubSeq(t, 1, k), SubSeq(t, k + 1, n)>> :
                   t \in [1..n -> OnsetPool], k \in 1..(n - 1) } : n \in 0..MaxStreamMsgs }

InitOnsets ==
    \E a \in OnsetStreams, b \in OnsetStreams :
        LET first == BuildStream(<<>>, a, MidiFile(480))
            second == BuildStream(first.heap, b, MidiFile(480))
        IN  /\ heap = second.heap
            /\ midi = first.stream
            /\ other = second.stream
            /\ pc = "parse_other"
            /\ call = NoCall
            /\ result = NoResult
            /\ config = LoadedConfig
            /\ workspaces = {}

CallExtractOnsets ==
    /\ Parsed
    /\ \E name \in Streams :
          /\ call' = [op |-> "_extract_onset_times_seconds", midi |-> name]
          /\ result' = Return(_extract_onset_times_seconds(heap, Stream(name)))
    /\ pc' = "done"
    /\ UNCHANGED <<heap, midi, other, config, workspaces>>

NextOnsets ==
    \/ CallExtractOnsets
    \/ CallOnsetAlignment

SpecOnsets == InitOnsets /\ [][NextOnsets]_vars

\* the onset times of a stream in stream order: track after track, and in a
\* track event after event
StreamOnsets(m) == OnsetsOfTracks(Tracks(heap, m), 1, m.ticks_per_beat, <<>>)

\* the distance of a reference onset and a candidate onset
Distance(ref_t, cand_t) == FracAbs(FracSub(ref_t, cand_t))

\* the candidates a reference onset can be matched to: not matched yet, and
\* within the tolerance
Free(ref_t, cand_onsets, matched, tolerance_s) ==
    {j \in 1..Len(cand_onsets) \ matched : FracLeq(Distance(ref_t, cand_onsets[j]), tolerance_s)}

\* the nearest of them, the earliest on a tie
Nearest(ref_t, cand_onsets, free) ==
    CHOOSE j \in free :
        \A k \in free :
            \/ FracLess(Distance(ref_t, cand_onsets[j]), Distance(ref_t, cand_onsets[k]))
            \/ /\ ~FracLess(Distance(ref_t, cand_onsets[k]), Distance(ref_t, cand_onsets[j]))
               /\ j <= k

\* the pairs <<reference, candidate>> matched when the reference onsets are
\* taken one after the other in the order of the list ref_onsets
RECURSIVE NearestMatching(_, _, _, _, _)
NearestMatching(ref_onsets, cand_onsets, tolerance_s, i, pairs) ==
    IF i > Len(ref_onsets) THEN pairs
    ELSE LET free == Free(ref_onsets[i], cand_onsets, {p[2] : p \in pairs}, tolerance_s)
         IN  NearestMatching(ref_onsets, cand_onsets, tolerance_s, i + 1,
                 IF free = {} THEN pairs
                 ELSE pairs \cup {<<i, Nearest(ref_onsets[i], cand_onsets, free)>>})

\* an alignment of two streams that both have an onset
AlignedOnsets ==
    /\ ComparedOnsets
    /\ OnsetCount(Stream(call.midi_ref)) >= 1
    /\ OnsetCount(Stream(call.midi_cand)) >= 1

(***************************************************************************)
(* C21 as claimed: onset_alignment_fmeasure takes the reference onsets in  *)
(* stream order (track after track, not sorted again), matches each to the *)
(* nearest candidate onset not matched yet within the tolerance (the       *)
(* earliest on a tie), and returns precision = true positives / candidate  *)
(* count and recall = true positives / reference count (as the returned    *)
(* numbers are: rounded to four places).                                   *)
(***************************************************************************)
C21_MatchesInStreamOrder ==
    AlignedOnsets =>
        LET ref_onsets == StreamOnsets(Stream(call.midi_ref))
            cand_onsets == SortFracs(StreamOnsets(Stream(call.midi_cand)))
            pairs == NearestMatching(ref_onsets, cand_onsets, call.tolerance_s, 1, {})
        IN  /\ result.kind = "ok"
            /\ result.value.precision = Round4(Frac(Cardinality(pairs), Len(cand_onsets)))
            /\ result.value.recall = Round4(Frac(Cardinality(pairs), Len(ref_onsets)))

(***************************************************************************)
(* C21 as amended: onset_alignment_fmeasure takes the reference onsets in  *)
(* ascending order of their times (the sorted list of the extraction),     *)
(* matches each to the nearest candidate onset not matched yet within the  *)
(* tolerance (on a tie the first one of the sorted candidate list), marks  *)
(* both as matched and leaves a reference onset without such a candidate   *)
(* unmatched; for two streams with an onset each, precision is true        *)
(* positives / candidate count and recall is true positives / reference    *)
(* count, both rounded to four decimal places.                             *)
(***************************************************************************)
C21_MatchesInTimeOrder ==
    AlignedOnsets =>
        LET ref_onsets == SortFracs(StreamOnsets(Stream(call.midi_ref)))
            cand_onsets == SortFracs(StreamOnsets(Stream(call.midi_cand)))
            pairs == NearestMatching(ref_onsets, cand_onsets, call.tolerance_s, 1, {})
            matching == Matching
        IN  /\ result.kind = "ok"
            /\ matching.matched_ref = {p[1] : p \in pairs}
            /\ matching.matched_cand = {p[2] : p \in pairs}
            /\ matching.true_positives = Cardinality(pairs)
            /\ result.value.precision = Round4(Frac(Cardinality(pairs), Len(cand_onsets)))
            /\ result.value.recall = Round4(Frac(Cardinality(pairs), Len(ref_onsets)))

\* the reference has an onset at tick 40 in its first track and one at tick
\* 24 in its second, the candidate onsets at ticks 40 and 80: taken in time
\* order both reference onsets are matched (in stream order the onset at 40
\* would take the candidate at 40 and leave none for the onset at 24)
C21_Witness ==
    /\ AlignedOnsets
    /\ call.tolerance_s = Frac(1, 20)
    /\ StreamOnsets(Stream(call.midi_ref)) = <<Frac(1, 24), Frac(1, 40)>>
    /\ StreamOnsets(Stream(call.midi_cand)) = <<Frac(1, 24), Frac(1, 12)>>
    /\ Matching.true_positives = 2
    /\ IsUnit(result.value.recall)

\* an extraction of the onsets of a stream
ExtractedOnsets == pc = "done" /\ call.op = "_extract_onset_times_seconds"

\* the tempo changes of a stream, of every track: <<absolute tick, tempo>>
TempoChanges(m) ==
    UNION { LET msgs == Messages(heap, m.tracks[k])
            IN  { <<AbsTick(msgs, i), msgs[i].tempo>> :
                  i \in {j \in 1..Len(msgs) : msgs[j].type = "set_tempo"} } :
            k \in 1..Len(m.tracks) }

\* the tempo in effect from tick t to tick t + 1: 500,000 until a tempo change,
\* then the tempo of the latest change at or before t
TempoAt(m, t) ==
    LET before == {c \in TempoChanges(m) : c[1] <= t}
    IN  IF before = {} THEN 500000
        ELSE (CHOOSE c \in before : \A d \in before : d[1] <= c[1])[2]

\* the microseconds per beat summed over the ticks from 0 to t: each tempo
\* times the number of ticks it is in effect
TempoSum(m, t) ==
    LET tempos == sorted({500000} \cup {c[2] : c \in TempoChanges(m)})
    IN  SumSeq([n \in 1..Len(tempos) |->
                   tempos[n] * Cardinality({i \in 0..(t - 1) : TempoAt(m, i) = tempos[n]})])

\* the seconds from the start of the stream to the absolute tick t
SecondsAt(m, t) == Reduce(Frac(TempoSum(m, t), m.ticks_per_beat * 1000000))

\* the onset times by the tempo in effect, of the note-ons of velocity > 0 of
\* the tracks from k on
RECURSIVE TempoMapOnsets(_, _)
TempoMapOnsets(m, k) ==
    IF k > Len(m.tracks) THEN <<>>
    ELSE LET msgs == Messages(heap, m.tracks[k])
             places == sorted({i \in 1..Len(msgs) :
                                 msgs[i].type = "note_on" /\ msgs[i].velocity > 0})
         IN  [j \in 1..Len(places) |-> SecondsAt(m, AbsTick(msgs, places[j]))]
             \o TempoMapOnsets(m, k + 1)

(***************************************************************************)
(* C22: the onset time of every note-on of velocity > 0 (of any channel,   *)
(* channel 9 included) is the sum of delta ticks * tempo / ticks_per_beat  *)
(* microseconds at the tempo in effect: 500,000 at first, then that of the *)
(* latest tempo change of the stream, also of one in another track than    *)
(* the note; the delta-time of a tempo change counts at the tempo before   *)
(* it.  The extraction returns these times, sorted.                        *)
(***************************************************************************)
C22_TempoInEffect ==
    ExtractedOnsets =>
        result = Return(SortFracs(TempoMapOnsets(Stream(call.midi), 1)))

(***************************************************************************)
(* SpecMelody: a stream is parsed and its dominant melody extracted.       *)
(***************************************************************************)
\* the notes 84 and 64 of channel 0 have the mean pitch 74 of the note of
\* channel 1; the note-on of velocity 0 and the drum note are no melody notes
MelodyNotes == {SoftNote, LoudNote, HighNote, DrumNote, SilentNoteOn}

CallExtractMelody ==
    /\ Parsed
    /\ call' = [op |-> "_extract_melody_pitches", midi |-> "midi"]
    /\ result' = Return(_extract_melody_pitches(heap, midi))
    /\ pc' = "done"
    /\ UNCHANGED <<heap, midi, other, config, workspaces>>

NextMelody ==
    \/ ParseTrack
    \/ ParseMessage(MelodyNotes)
    \/ CallExtractMelody

SpecMelody == InitStream({480}) /\ [][NextMelody]_vars

ExtractedMelody == pc = "done" /\ call.op = "_extract_melody_pitches"

(***************************************************************************)
(* C23: _extract_melody_pitches returns the pitches of the note-ons of     *)
(* velocity > 0, in track order and then event order, of the channel other *)
(* than 9 with the highest mean note-on pitch (of the channels of that     *)
(* mean, the one met first in the stream), and the empty sequence when no  *)
(* channel other than 9 has a note-on of velocity > 0; the notes of        *)
(* channel 9 are in no result.                                             *)
(***************************************************************************)
C23_DominantMelody ==
    ExtractedMelody =>
        LET dominant == Dominant(midi)
        IN  /\ result.kind = "ok"
            /\ dominant = {} <=> \A c \in 0..15 \ {9} : PitchesOn(heap, midi.tracks, c) = <<>>
            /\ dominant = {} => result.value = <<>>
            /\ dominant # {} =>
                  /\ Cardinality(dominant) = 1
                  /\ \A c \in dominant : result.value = PitchesOn(heap, midi.tracks, c)

\* channel 1 is met first with the note 74, then channel 0 with the notes 84
\* and 64 in a second track: the means are equal and the melody is that of
\* channel 1
C23_Witness ==
    /\ ExtractedMelody
    /\ Len(midi.tracks) = 2
    /\ PitchesOn(heap, midi.tracks, 1) = <<74>>
    /\ PitchesOn(heap, midi.tracks, 0) = <<84, 64>>
    /\ Messages(heap, midi.tracks[1])[1].channel = 1
    /\ result.value = <<74>>

(***************************************************************************)
(* SpecScan: a stream is parsed and extract_features_from_channel scans it *)
(* for a channel, one step of its loops at a time.  The frame of the call  *)
(* holds the place of the loops (track, index), track_time and the         *)
(* accumulators.                                                           *)
(***************************************************************************)
StartScan ==
    /\ Parsed
    /\ \E midi_channel \in Channels :
          call' = [op |-> "extract_features_from_channel", midi_channel |-> midi_channel,
                   track |-> 1, index |-> 1, track_time |-> 0, acc |-> EmptyScan]
    /\ pc' = "scan"
    /\ UNCHANGED <<heap, midi, other, result, config, workspaces>>

\* the message the scan is at
Scanned == Messages(heap, midi.tracks[call.track])[call.index]

\* (mutant) a note that ends stays in the map of open notes
ScanEvent_KeepsOpen ==
    /\ pc = "scan"
    /\ call.track <= Len(midi.tracks)
    /\ call.index <= Len(heap[midi.tracks[call.track]].msgs)
    /\ LET track_time == call.track_time + Scanned.time
           acc == ScanMessage(call.acc, Scanned, track_time, call.midi_channel)
       IN  call' = [call EXCEPT !.index = @ + 1,
                                !.track_time = track_time,
                                !.acc = [acc EXCEPT !.active_notes = acc.active_notes @@ call.acc.active_notes]]
    /\ UNCHANGED <<heap, midi, other, pc, result, config, workspaces>>

\* one turn of the loop over the messages of a track
ScanEvent ==
    /\ pc = "scan"
    /\ call.track <= Len(midi.tracks)
    /\ call.index <= Len(heap[midi.tracks[call.track]].msgs)
    /\ LET track_time == call.track_time + Scanned.time
       IN  call' = [call EXCEPT !.index = @ + 1,
                                !.track_time = track_time,
                                !.acc = ScanMessage(@, Scanned, track_time, call.midi_channel)]
    /\ UNCHANGED <<heap, midi, other, pc, result, config, workspaces>>

\* the loop over the tracks goes to the next track: track_time = 0
ScanNextTrack ==
    /\ pc = "scan"
    /\ call.track <= Len(midi.tracks)
    /\ call.index > Len(heap[midi.tracks[call.track]].msgs)
    /\ call' = [call EXCEPT !.track = @ + 1, !.index = 1, !.track_time = 0]
    /\ UNCHANGED <<heap, midi, other, pc, result, config, workspaces>>

\* the loops are over: the features are computed and returned
ReturnFeatures ==
    /\ pc = "scan"
    /\ call.track > Len(midi.tracks)
    /\ result' = extract_features_from_channel(heap, midi, call.midi_channel)
    /\ pc' = "done"
    /\ UNCHANGED <<heap, midi, other, call, config, workspaces>>

NextScan ==
    \/ ParseTrack
    \/ ParseMessage(FeaturePool)
    \/ StartScan
    \/ ScanEvent
    \/ ScanNextTrack
    \/ ReturnFeatures

SpecScan == InitStream({480}) /\ [][NextScan]_vars

\* a step of the scan that reads a message
ScansEvent == pc = "scan" /\ call'.index = call.index + 1 /\ call'.track = call.track

\* the message is of the scanned channel and starts a note, or ends one
StartsNote(msg) ==
    /\ hasattr(msg, "channel") /\ msg.channel = call.midi_channel
    /\ msg.type = "note_on" /\ msg.velocity > 0
EndsNote(msg) ==
    /\ hasattr(msg, "channel") /\ msg.channel = call.midi_channel
    /\ msg.type = "note_off" \/ (msg.type = "note_on" /\ msg.velocity = 0)

\* the pitches that are open, and the onset tick recorded for one
Open(frame) == DOMAIN frame.acc.active_notes
OnsetOf(frame, pitch) == frame.acc.active_notes[pitch][1]

(***************************************************************************)
(* C24: while extract_features_from_channel scans a channel the map of     *)
(* open notes has one onset per pitch.  A note-on of velocity > 0 of a     *)
(* pitch that is open replaces its onset by the current tick and records   *)
(* no duration; a note-off or a note-on of velocity 0 of an open pitch     *)
(* records one duration, the current tick minus the recorded onset tick,   *)
(* and removes the pitch; one of a pitch that is not open records nothing; *)
(* no other message changes the map or the durations.  So there are never  *)
(* more durations than notes, and the steps end in the accumulators of the *)
(* whole scan.                                                             *)
(***************************************************************************)
C24_OpenNotes ==
    [][/\ ScansEvent =>
            LET msg == Scanned
                now == call'.track_time
                durations == call.acc.durations
            IN  /\ now = call.track_time + msg.time
                /\ StartsNote(msg) =>
                      /\ Open(call') = Open(call) \cup {msg.note}
                      /\ OnsetOf(call', msg.note) = now
                      /\ \A p \in Open(call) \ {msg.note} : OnsetOf(call', p) = OnsetOf(call, p)
                      /\ call'.acc.durations = durations
                      /\ Len(call'.acc.notes) = Len(call.acc.notes) + 1
                /\ (EndsNote(msg) /\ msg.note \in Open(call)) =>
                      /\ Open(call') = Open(call) \ {msg.note}
                      /\ \A p \in Open(call') : OnsetOf(call', p) = OnsetOf(call, p)
                      /\ call'.acc.durations = Append(durations, now - OnsetOf(call, msg.note))
                /\ (EndsNote(msg) /\ msg.note \notin Open(call)) => call'.acc = call.acc
                /\ (~StartsNote(msg) /\ ~EndsNote(msg)) => call'.acc = call.acc
                /\ Len(call'.acc.durations) <= Len(call'.acc.notes)
       /\ (pc = "scan" /\ pc' = "done") =>
               call.acc = ScanTracks(Tracks(heap, midi), 1, EmptyScan, call.midi_channel)]_vars

\* the scan has read two note-ons of the pitch 84, at the ticks 400 and 800,
\* and then its note-on of velocity 0 at tick 900: one duration, from the
\* second onset, and no open note
C24_Witness ==
    /\ pc = "scan"
    /\ call.midi_channel = 0
    /\ call.track = 1
    /\ call.index = 4
    /\ Messages(heap, midi.tracks[1]) = <<LoudNote, LoudNote, SilentNoteOn>>
    /\ call.acc.durations = <<100>>
    /\ call.acc.active_notes = <<>>
    /\ Len(call.acc.notes) = 2

(***************************************************************************)
(* C28: for every stream (its delta-times are not negative), also one in   *)
(* which the events of a channel are spread over several tracks, every     *)
(* duration extract_features_from_channel records is >= 0, and so is the   *)
(* avg_note_duration it returns.                                           *)
(***************************************************************************)
C28_DurationsNotNegative ==
    /\ pc = "scan" => \A n \in 1..Len(call.acc.durations) : call.acc.durations[n] >= 0
    /\ (pc = "done" /\ result.kind = "ok" /\ result.value # None) =>
           result.value.avg_note_duration.num >= 0

(***************************************************************************)
(* SpecPalette: classify_channel is called on a feature vector, or a       *)
(* stream is parsed and then classified or remapped.                       *)
(***************************************************************************)
InitPalette ==
    \/ InitStream({480, 2})
    \/ /\ InitClassify
       /\ call \in ClassifyCalls

CallClassifications ==
    /\ Parsed
    /\ \E soundfont_id \in SoundfontIds :
          /\ call' = [op |-> "get_channel_classifications", soundfont_id |-> soundfont_id]
          /\ result' = get_channel_classifications(heap, midi, soundfont_id)
    /\ pc' = "done"
    /\ UNCHANGED <<heap, midi, other, config, workspaces>>

NextPalette ==
    \/ ParseTrack
    \/ ParseMessage(RemapPool)
    \/ CallClassify
    \/ CallClassifications
    \/ CallRemap

SpecPalette == InitPalette /\ [][NextPalette]_vars

\* get_channel_classifications has returned its dictionary
Reported == pc = "done" /\ call.op = "get_channel_classifications" /\ result.kind = "ok"

\* the tracks of new_midi carry the programs: each starts with one program
\* change for every channel of the input track that has a program, with the
\* assignment of that channel
Carries(new_midi, programs) ==
    \A k \in 1..Len(midi.tracks) :
        LET track == InTrack(k)
            new_track == Messages(heap, new_midi.tracks[k])
            channels == sorted({c \in TrackChannels(track) : c \in DOMAIN programs})
        IN  /\ Len(new_track) = Len(channels) + Len(track)
            /\ \A i \in 1..Len(channels) :
                  /\ new_track[i].type = "program_change"
                  /\ new_track[i].program = Assignment(programs, channels[i]).program
                  /\ new_track[i].channel = Assignment(programs, channels[i]).channel

(***************************************************************************)
(* C25: for each of the five built-in styles, and for an unknown style id  *)
(* (which is treated as snes), every program classify_channel returns is   *)
(* in the allowed-program set of the style, so _program_for_soundfont      *)
(* leaves it as it is; and for every stream the program that               *)
(* get_channel_classifications reports for a channel is the program        *)
(* remap_midi assigns to that channel, and lies in 0..128.                 *)
(***************************************************************************)
C25_PaletteCoversClassifier ==
    /\ Classified =>
          /\ result.value \in Range(AllowedList(call.soundfont_id))
          /\ result.value \in 0..128
          /\ _program_for_soundfont(result.value, call.soundfont_id) = result.value
          /\ NormalizeId(call.soundfont_id) \notin BuiltInStyles =>
                result.value = classify_channel(call.midi_channel, call.features, STR_snes)
    /\ Reported =>
          /\ \A c \in DOMAIN result.value : result.value[c] \in 0..128
          /\ LET remap == remap_midi(heap, midi, call.soundfont_id)
             IN  /\ remap.outcome.kind = "ok"
                 /\ LET new_heap == remap.heap
                        new_midi == remap.outcome.value
                    IN  \A k \in 1..Len(midi.tracks) :
                            LET track == InTrack(k)
                                new_track == Messages(new_heap, new_midi.tracks[k])
                                channels == sorted({c \in TrackChannels(track) :
                                                      c \in DOMAIN result.value})
                            IN  /\ Len(new_track) = Len(channels) + Len(track)
                                /\ \A i \in 1..Len(channels) :
                                      /\ new_track[i].program
                                            = Assignment(result.value, channels[i]).program
                                      /\ new_track[i].channel
                                            = Assignment(result.value, channels[i]).channel
    /\ Remapped =>
          LET reported == get_channel_classifications(heap, midi, call.soundfont_id)
          IN  /\ reported.kind = "ok"
              /\ Carries(result.value, reported.value)

\* a stream with a note on channel 0 and a drum note, remapped for " GBA ":
\* the output starts with the program changes of the programs reported, the
\* first lead of gba on channel 0 and the drum kit as program 0 on channel 9
C25_Witness ==
    /\ Remapped
    /\ call.soundfont_id = <<32, 71, 66, 65, 32>>
    /\ get_channel_classifications(heap, midi, call.soundfont_id)
          = Return((0 :> GBA_LEADS[1]) @@ (9 :> 128))
    /\ OutTrack(1)[1] = ProgramChange(GBA_LEADS[1], 0)
    /\ OutTrack(1)[2] = ProgramChange(0, 9)

(***************************************************************************)
(* C26: for every stream s and every built-in style the dominant melody of *)
(* remap_midi(s, style) is that of s, and so melody_contour_similarity(s,  *)
(* remap_midi(s, style)) = melody_contour_similarity(s, s), also when the  *)
(* channel of the highest mean pitch is classified as percussion and moved *)
(* to channel 9.                                                           *)
(***************************************************************************)
C26_RemapKeepsMelody ==
    (pc = "done" /\ call.op = "remap_midi" /\ call.soundfont_id \in BuiltInStyles) =>
        /\ result.kind = "ok"
        /\ _extract_melody_pitches(heap, result.value) = _extract_melody_pitches(heap, midi)
        /\ \A rounding \in RoundingErrors :
              melody_contour_similarity(heap, midi, result.value, rounding)
                  = melody_contour_similarity(heap, midi, midi, rounding)

\* the alignment with the two streams of the call exchanged
Exchanged ==
    onset_alignment_fmeasure(heap, Stream(call.midi_cand), Stream(call.midi_ref),
                             call.tolerance_s)

\* the matching with the two streams of the call exchanged
ExchangedMatching ==
    GreedyMatch(_extract_onset_times_seconds(heap, Stream(call.midi_cand)),
                _extract_onset_times_seconds(heap, Stream(call.midi_ref)),
                call.tolerance_s, 1,
                [matched_ref |-> {}, matched_cand |-> {}, true_positives |-> 0])

\* the alignment finds what the exchanged alignment finds: the same number of
\* true positives, precision and recall exchanged, the same f_measure
SameExchanged ==
    LET exchanged == Exchanged
    IN  /\ result.kind = "ok"
        /\ exchanged.kind = "ok"
        /\ Matching.true_positives = ExchangedMatching.true_positives
        /\ result.value.precision = exchanged.value.recall
        /\ result.value.recall = exchanged.value.precision
        /\ result.value.f_measure = exchanged.value.f_measure

(***************************************************************************)
(* C27 as claimed: the onset alignment is symmetric in its two streams.    *)
(* For all streams a, b and every tolerance, onset_alignment_fmeasure(a,   *)
(* b, tolerance) finds as many true positives as onset_alignment_fmeasure( *)
(* b, a, tolerance), so precision and recall are exchanged and f_measure   *)
(* is equal.                                                               *)
(***************************************************************************)
C27_AlignmentSymmetric == ComparedOnsets => SameExchanged

(***************************************************************************)
(* C27 as amended: the onset alignment is symmetric in its two streams     *)
(* when the tolerance is 0 or when one of the streams has no more than one *)
(* onset: then both directions find as many true positives, precision and  *)
(* recall are exchanged and f_measure is equal.                            *)
(***************************************************************************)
C27_SymmetricWhenExact ==
    (/\ ComparedOnsets
     /\ \/ call.tolerance_s = Zero
        \/ OnsetCount(Stream(call.midi_ref)) <= 1
        \/ OnsetCount(Stream(call.midi_cand)) <= 1) => SameExchanged

\* two onsets aligned with one at the time of the first of them, at
\* tolerance 0: one true positive, precision 1.0 and recall 0.5, and the
\* other way round when the streams are exchanged
C27_Witness ==
    /\ ComparedOnsets
    /\ call.tolerance_s = Zero
    /\ OnsetCount(Stream(call.midi_ref)) = 2
    /\ OnsetCount(Stream(call.midi_cand)) = 1
    /\ Matching.true_positives = 1
    /\ IsUnit(result.value.precision)
    /\ result.value.recall = Frac(5000, 10000)
    /\ Exchanged.value.precision = Frac(5000, 10000)

(***************************************************************************)
(* The frame of remap_midi.                                                *)
(***************************************************************************)
\* the copy of message i of input track k
CopyOf(k, i) == OutTrack(k)[Inserted(k) + i]

\* the fields of a message that its copy may change
Rewritable(msg) ==
    {"channel"} \cup (IF msg.type = "program_change" THEN {"program"} ELSE {})

(***************************************************************************)
(* C29: remap_midi changes nothing else.  In its output every copy has the *)
(* fields of its message and the same value in each of them (kind, pitch,  *)
(* velocity, delta-time and every other payload field) but the channel,    *)
(* which is the same or 9, and the program of a program change; the copy   *)
(* of a message without a channel, or on a channel that has no resolved    *)
(* program, is equal to the message in every field; and the                *)
(* ticks-per-beat of the output is that of the input.                      *)
(***************************************************************************)
C29_NothingElseChanges ==
    Remapped =>
        LET programs == ResolvedPrograms
        IN  /\ result.value.ticks_per_beat = midi.ticks_per_beat
            /\ \A k \in 1..Len(midi.tracks) : \A i \in 1..Len(InTrack(k)) :
                  LET msg == InTrack(k)[i]
                      new_msg == CopyOf(k, i)
                  IN  /\ DOMAIN new_msg = DOMAIN msg
                      /\ \A f \in DOMAIN msg \ Rewritable(msg) : new_msg[f] = msg[f]
                      /\ hasattr(msg, "channel") => new_msg.channel \in {msg.channel, 9}
                      /\ (~hasattr(msg, "channel") \/ msg.channel \notin DOMAIN programs) =>
                            new_msg = msg

\* a stream with a tempo change, a program change of channel 0, which has
\* no note and so no program, and a drum note: the first two are copied as
\* they are, after the program change inserted for the drums
C29_Witness ==
    /\ Remapped
    /\ result.value.ticks_per_beat = midi.ticks_per_beat
    /\ DOMAIN ResolvedPrograms = {9}
    /\ Len(midi.tracks) = 1
    /\ InTrack(1) = <<SetTempo, OldProgram, DrumNote>>
    /\ OutTrack(1) = <<ProgramChange(0, 9), SetTempo, OldProgram, DrumNote>>

(***************************************************************************)
(* The workspace of a request to POST /api/remaster.                       *)
(***************************************************************************)
\* the upload of the request passes the checks of its extension and content type
ValidUpload ==
    /\ is_allowed_extension(call.file.filename)
    /\ is_allowed_content_type(call.file.content_type)

\* the error response is returned in this step
ReturnsError == pc # "done" /\ pc' = "done" /\ result'.kind = "raise"

(***************************************************************************)
(* C30: in POST /api/remaster no workspace directory is created when the   *)
(* validation of the extension or the content type fails; whenever a step  *)
(* after the creation of the workspace fails (an oversize body, a parse    *)
(* timeout, or any other exception in parsing, classification, remapping   *)
(* or saving), an error response follows and the workspace directory is    *)
(* removed when that response is returned; a failure of the audio          *)
(* rendering alone is no error: the request goes on with the workspace in  *)
(* place and audio_error set, and the response that is returned carries    *)
(* that audio_error and leaves the workspace in place.                     *)
(***************************************************************************)
C30_WorkspaceRemovedOnError ==
    [][/\ ~ValidUpload => (workspaces = {} /\ workspaces' = {})
       /\ pc = "except" => ReturnsError
       /\ (ReturnsError /\ "workspace" \in DOMAIN call) => call.workspace \notin workspaces'
       /\ ReturnsError => workspaces' = {}
       /\ pc = "render" =>
             /\ pc' = "metadata"
             /\ result' = result
             /\ workspaces' = workspaces
             /\ call.workspace \in workspaces'
             /\ call'.audio_url = None => call'.audio_error # None
       /\ (pc = "metadata" /\ pc' = "done" /\ result'.kind = "ok") =>
             /\ call.workspace \in workspaces'
             /\ result'.value.audio_error = call.audio_error
             /\ result'.value.audio_url = call.audio_url]_vars

\* an upload of two notes in a stream of 2 ticks per beat: remap_midi raises
\* ZeroDivisionError after the workspace was created; the response is 500
\* and the workspace is gone
C30_Witness ==
    /\ pc = "done"
    /\ call.op = "remaster"
    /\ "workspace" \in DOMAIN call
    /\ midi.ticks_per_beat = 2
    /\ Len(midi.tracks) = 1
    /\ Responded(500, "PROCESSING_ERROR")
    /\ call.workspace \notin workspaces
    /\ workspaces = {}

====
